---- MODULE Spec2Model ----
(***************************************************************************)
(* A model of corec-tracker: the SQLite store (database.py), the           *)
(* aggregation queries (analyze.py) and the extraction engine with its     *)
(* strategies (scraper.py).                                                *)
(*                                                                         *)
(* Representation                                                          *)
(*  - A Python value that may be None is a tuple: <<>> is None, <<x>> is   *)
(*    the value x.                                                         *)
(*  - A real number (SQLite REAL, Python float) is an exact rational       *)
(*    <<n, d>> in lowest terms with d > 0; float rounding is not modelled. *)
(*  - A timestamp is a number of seconds since a Sunday 00:00:00; the      *)
(*    text SQLite stores for a naive datetime orders as that number does.  *)
(*  - A table is a bag of rows; the AUTOINCREMENT id of usage_data, which  *)
(*    no statement of the program reads, is left out of its rows.          *)
(***************************************************************************)
EXTENDS Integers, Sequences, FiniteSets, Bags, TLC

VARIABLES
    facilities,   \* table facilities: a set of rows [id, name]
    usage_data,   \* table usage_data: a bag of rows
    now,          \* the wall clock, in seconds
    call,         \* the last operation called on the store or analyzer, with its arguments
    ret,          \* what that operation returned
    pc,           \* per client thread: its position inside insert_usage_data
    loc,          \* per client thread: the locals of insert_usage_data
    page,         \* what the facility-usage site serves: [fetched, frames, main]
    driver,       \* FacilityUsageScraper.driver: "none" or "open"
    log,          \* what the last scrape() did, step by step
    collector_running,  \* app.py: the global flag of the background collector
    threads,      \* app.py: the collector threads started so far, in order
    opened,       \* app.py: the globals of _ensure_db(): db, analyzer, _db_init_error
    other_file,   \* the SQLite file the analyzer opened, when it is not the one of db
    leaked        \* the files whose write lock a connection left open still holds

storeVars == <<facilities, usage_data, now>>
scraperVars == <<page, driver, log>>
dbVars == <<opened, other_file, leaked>>
appVars == <<collector_running, threads, opened, other_file, leaked>>
vars == <<facilities, usage_data, now, call, ret, pc, loc, page, driver, log,
          collector_running, threads, opened, other_file, leaked>>

----------------------------------------------------------------------------
(* Optional values and Python truthiness *)

None == <<>>
Some(x) == <<x>>
IsNone(o) == o = <<>>
Val(o) == o[1]

\* bool(x) of an optional integer: None and 0 are false
TruthyInt(o) == ~IsNone(o) /\ Val(o) # 0

----------------------------------------------------------------------------
(* Rationals *)

RECURSIVE GCD(_, _)
GCD(a, b) == IF b = 0 THEN a ELSE GCD(b, a % b)

Rat(n, d) == LET g == GCD(n, d) IN IF g = 0 THEN <<0, 1>> ELSE <<n \div g, d \div g>>
RatOfInt(i) == <<i, 1>>
RatLess(a, b) == a[1] * b[2] < b[1] * a[2]
RatLeq(a, b) == a[1] * b[2] <= b[1] * a[2]
RatIsZero(a) == a[1] = 0
RatAdd(a, b) == Rat(a[1] * b[2] + b[1] * a[2], a[2] * b[2])
RatDivInt(a, k) == Rat(a[1], a[2] * k)

\* bool(x) of an optional float: None and 0.0 are false
TruthyRat(o) == ~IsNone(o) /\ ~RatIsZero(Val(o))

----------------------------------------------------------------------------
(* Sequences *)

RECURSIVE SumRat(_)
SumRat(s) == IF s = <<>> THEN <<0, 1>> ELSE RatAdd(Head(s), SumRat(Tail(s)))

\* the first k elements of s (the slice s[:k] for k >= 0)
Take(s, k) == SubSeq(s, 1, IF k < Len(s) THEN k ELSE Len(s))

Range(s) == {s[i] : i \in DOMAIN s}

----------------------------------------------------------------------------
(* Time *)

\* the timestamp of second `s` of minute `m` of hour `h` of day `d`
Ts(d, h, m, s) == ((d * 24 + h) * 60 + m) * 60 + s

\* strftime('%w', timestamp): 0 is Sunday
DayOfWeek(t) == (t \div 86400) % 7
\* strftime('%H:%M', timestamp), as the minute of the day
TimeOfDay(t) == (t % 86400) \div 60
\* time_str.split(':')[0]
HourOf(tod) == tod \div 60

day_names == <<"Sunday", "Monday", "Tuesday", "Wednesday", "Thursday", "Friday", "Saturday">>

----------------------------------------------------------------------------
(* database.py: the tables *)

\* facility names in the order of SQLite's BINARY collation
NameOrder == <<"CoRec", "TREC">>
FacilityNames == Range(NameOrder)
NameRank(n) == CHOOSE i \in DOMAIN NameOrder : NameOrder[i] = n

MaxId(facs) == CHOOSE i \in {f.id : f \in facs} : \A f \in facs : f.id <= i
\* id INTEGER PRIMARY KEY AUTOINCREMENT, with no row ever deleted
NextFacilityId(facs) == IF facs = {} THEN 1 ELSE MaxId(facs) + 1

\* SELECT id FROM facilities WHERE name = ? ; fetchone()
SelectFacilityId(facs, name) ==
    IF \E f \in facs : f.name = name
    THEN Some((CHOOSE f \in facs : f.name = name /\ \A g \in facs : g.name = name => f.id <= g.id).id)
    ELSE None

\* the facilities table declared without UNIQUE on name
NameNeverTaken(facs, name) == FALSE

\* name TEXT NOT NULL UNIQUE: the INSERT raises IntegrityError when it holds
FacilityNameTaken(facs, name) == \E f \in facs : f.name = name

\* INSERT INTO facilities (name) VALUES (?)
InsertFacility(facs, name) == facs \cup {[id |-> NextFacilityId(facs), name |-> name]}

\* get_or_create_facility run alone: the facilities table after it, and the id it returns
get_or_create_facility(facs, name) ==
    LET result == SelectFacilityId(facs, name) IN
    IF ~IsNone(result)
    THEN [facilities |-> facs, id |-> Val(result)]
    ELSE [facilities |-> InsertFacility(facs, name), id |-> NextFacilityId(facs)]

\* json.dumps(metadata) if metadata else None ; metadata is None or {'source': tag}
MetadataJson(metadata) ==
    IF IsNone(metadata) THEN None ELSE Some([source |-> Val(metadata)])
\* json.loads(row[4]) if row[4] else None
MetadataLoad(text) ==
    IF IsNone(text) THEN None ELSE Some(Val(text).source)

UsageRow(fid, r) ==
    [facility_id |-> fid, timestamp |-> r.timestamp, occupancy |-> r.occupancy,
     capacity |-> r.capacity, percentage |-> r.percentage,
     metadata |-> MetadataJson(r.metadata)]

\* UNIQUE(facility_id, timestamp)
Conflicts(a, b) == a.facility_id = b.facility_id /\ a.timestamp = b.timestamp

\* a plain INSERT into a table without the UNIQUE(facility_id, timestamp) constraint
InsertOnly(usage, row) == usage (+) SetToBag({row})

\* INSERT OR IGNORE: a conflicting new row is dropped
InsertOrIgnore(usage, row) ==
    IF \E q \in BagToSet(usage) : Conflicts(q, row) THEN usage
    ELSE usage (+) SetToBag({row})

\* INSERT OR REPLACE INTO usage_data ...: the rows the new one conflicts with
\* are deleted, then the new row is inserted
InsertOrReplace(usage, row) ==
    LET kept == {q \in BagToSet(usage) : ~Conflicts(q, row)} IN
    [q \in kept |-> usage[q]] (+) SetToBag({row})

\* insert_usage_data run alone
insert_usage_data(facs, usage, r) ==
    LET g == get_or_create_facility(facs, r.facility_name) IN
    [facilities |-> g.facilities,
     usage_data |-> InsertOrReplace(usage, UsageRow(g.id, r))]

RECURSIVE SortByTimestamp(_)
\* ORDER BY timestamp
SortByTimestamp(bag) ==
    IF BagToSet(bag) = {} THEN <<>>
    ELSE LET m == CHOOSE q \in BagToSet(bag) :
                      \A p \in BagToSet(bag) : q.timestamp <= p.timestamp
         IN <<m>> \o SortByTimestamp(bag (-) SetToBag({m}))

\* the window with its end left out: AND timestamp < ?
SelectUsageBefore(usage, fid, start_date, end_date) ==
    LET sel == {q \in BagToSet(usage) :
                   /\ q.facility_id = fid
                   /\ (~IsNone(start_date) => q.timestamp >= Val(start_date))
                   /\ (~IsNone(end_date) => q.timestamp < Val(end_date))}
    IN [q \in sel |-> usage[q]]

\* WHERE facility_id = ? [AND timestamp >= ?] [AND timestamp <= ?]
SelectUsage(usage, fid, start_date, end_date) ==
    LET sel == {q \in BagToSet(usage) :
                   /\ q.facility_id = fid
                   /\ (~IsNone(start_date) => q.timestamp >= Val(start_date))
                   /\ (~IsNone(end_date) => q.timestamp <= Val(end_date))}
    IN [q \in sel |-> usage[q]]

ResultDict(row) ==
    [timestamp |-> row.timestamp, occupancy |-> row.occupancy, capacity |-> row.capacity,
     percentage |-> row.percentage, metadata |-> MetadataLoad(row.metadata)]

\* get_facility_data: the facilities table after it, and the list it returns
get_facility_data(facs, usage, name, start_date, end_date) ==
    LET g == get_or_create_facility(facs, name)
        results == SortByTimestamp(SelectUsage(usage, g.id, start_date, end_date))
    IN [facilities |-> g.facilities,
        result |-> [i \in DOMAIN results |-> ResultDict(results[i])]]

RECURSIVE NamesOfRows(_)
\* SELECT name FROM facilities ORDER BY name: one entry per row
NamesOfRows(facs) ==
    IF facs = {} THEN <<>>
    ELSE LET m == CHOOSE f \in facs : \A g \in facs : NameRank(f.name) <= NameRank(g.name)
         IN <<m.name>> \o NamesOfRows(facs \ {m})

get_all_facilities(facs) == NamesOfRows(facs)

----------------------------------------------------------------------------
(* database.py: get_data_by_time_of_day *)

\* WHERE facility_id = ? alone: the rows of the facility of any age
SelectWholeTable(usage, fid, days_back, clock) ==
    LET sel == {q \in BagToSet(usage) : q.facility_id = fid}
    IN [q \in sel |-> usage[q]]

\* WHERE facility_id = ? AND timestamp >= datetime('now', '-' || ? || ' days')
SelectWindow(usage, fid, days_back, clock) ==
    LET sel == {q \in BagToSet(usage) :
                   q.facility_id = fid /\ q.timestamp >= clock - days_back * 86400}
    IN [q \in sel |-> usage[q]]

\* AVG(column): the mean of the values that are not NULL, NULL when there is none
Avg(values) ==
    LET present == SelectSeq(values, LAMBDA v : ~IsNone(v))
        nums == [i \in DOMAIN present |-> Val(present[i])]
    IN IF present = <<>> THEN None ELSE Some(RatDivInt(SumRat(nums), Len(present)))

\* one row of the GROUP BY time_of_day, day_of_week
GroupRow(rows, dow, tod) ==
    LET grp == SelectSeq(rows, LAMBDA q : DayOfWeek(q.timestamp) = dow /\ TimeOfDay(q.timestamp) = tod)
    IN [time_of_day |-> tod, day_of_week |-> dow,
        avg_percentage |-> Avg([i \in DOMAIN grp |-> grp[i].percentage]),
        avg_occupancy |-> Avg([i \in DOMAIN grp |->
                                 IF IsNone(grp[i].occupancy) THEN None
                                 ELSE Some(RatOfInt(Val(grp[i].occupancy)))]),
        sample_count |-> Len(grp)]

RECURSIVE SortKeys(_)
\* ORDER BY day_of_week, time_of_day, over the set of <<dow, tod>> keys
SortKeys(K) ==
    IF K = {} THEN <<>>
    ELSE LET m == CHOOSE k \in K : \A j \in K :
                      k[1] < j[1] \/ (k[1] = j[1] /\ k[2] <= j[2])
         IN <<m>> \o SortKeys(K \ {m})

\* the SELECT were it to give a row for every (day, time) the facility has a
\* reading at, of any age, aggregating the readings of the window
GroupedRowsOfEveryKey(usage, fid, days_back, clock) ==
    LET rows == SortByTimestamp(SelectWindow(usage, fid, days_back, clock))
        every == SortByTimestamp(SelectWholeTable(usage, fid, days_back, clock))
        keys == SortKeys({<<DayOfWeek(every[i].timestamp), TimeOfDay(every[i].timestamp)>> :
                            i \in DOMAIN every})
    IN [i \in DOMAIN keys |-> GroupRow(rows, keys[i][1], keys[i][2])]

\* the rows the SELECT ... GROUP BY ... ORDER BY returns
GroupedRows(usage, fid, days_back, clock) ==
    LET rows == SortByTimestamp(SelectWindow(usage, fid, days_back, clock))
        keys == SortKeys({<<DayOfWeek(rows[i].timestamp), TimeOfDay(rows[i].timestamp)>> :
                            i \in DOMAIN rows})
    IN [i \in DOMAIN keys |-> GroupRow(rows, keys[i][1], keys[i][2])]

Stats(row) ==
    [avg_percentage |-> row.avg_percentage, avg_occupancy |-> row.avg_occupancy,
     sample_count |-> row.sample_count]

RECURSIVE BuildData(_, _)
\* the loop over the result rows: data[day_name][time_of_day] = {...}, as an
\* insertion-ordered dict: a sequence of [day, times], times a sequence of [time, stats]
BuildData(results, data) ==
    IF results = <<>> THEN data
    ELSE LET row == Head(results)
             day_name == day_names[row.day_of_week + 1]
             entry == [time |-> row.time_of_day, stats |-> Stats(row)]
             known == \E i \in DOMAIN data : data[i].day = day_name
             withDay == IF known THEN data
                        ELSE Append(data, [day |-> day_name, times |-> <<>>])
             put(times) ==
                 IF \E j \in DOMAIN times : times[j].time = entry.time
                 THEN [j \in DOMAIN times |->
                          IF times[j].time = entry.time THEN entry ELSE times[j]]
                 ELSE Append(times, entry)
         IN BuildData(Tail(results),
                [i \in DOMAIN withDay |->
                    IF withDay[i].day = day_name
                    THEN [day |-> day_name, times |-> put(withDay[i].times)]
                    ELSE withDay[i]])

\* get_data_by_time_of_day: the facilities table after it, and the dict it returns
get_data_by_time_of_day(facs, usage, name, days_back, clock) ==
    LET g == get_or_create_facility(facs, name)
    IN [facilities |-> g.facilities,
        result |-> BuildData(GroupedRows(usage, g.id, days_back, clock), <<>>)]

----------------------------------------------------------------------------
(* analyze.py *)

RECURSIVE SlotsOfDay(_, _)
\* for time_str, stats in times.items(): if stats['sample_count'] > 0: append
SlotsOfDay(day, times) ==
    IF times = <<>> THEN <<>>
    ELSE LET e == Head(times)
             slot == [day |-> day, time |-> e.time,
                      avg_percentage |-> e.stats.avg_percentage,
                      avg_occupancy |-> e.stats.avg_occupancy,
                      sample_count |-> e.stats.sample_count]
         IN (IF e.stats.sample_count > 0 THEN <<slot>> ELSE <<>>)
                \o SlotsOfDay(day, Tail(times))

RECURSIVE TimeSlots(_)
\* for day, times in data.items(): ...
TimeSlots(data) ==
    IF data = <<>> THEN <<>>
    ELSE SlotsOfDay(Head(data).day, Head(data).times) \o TimeSlots(Tail(data))

\* a sort key: a float, or float('inf')
Inf == [inf |-> TRUE, v |-> <<0, 1>>]
Fin(q) == [inf |-> FALSE, v |-> q]
KeyLess(a, b) == ~a.inf /\ (b.inf \/ RatLess(a.v, b.v))

\* lambda x: x['avg_percentage'] or float('inf')
BestKey(x) == IF TruthyRat(x.avg_percentage) THEN Fin(Val(x.avg_percentage)) ELSE Inf
\* lambda x: x['avg_percentage'] or 0
WorstKey(x) == IF TruthyRat(x.avg_percentage) THEN Fin(Val(x.avg_percentage)) ELSE Fin(<<0, 1>>)

\* x put into the list s so that it becomes its k-th element
InsertAt(s, x, k) == SubSeq(s, 1, k - 1) \o <<x>> \o SubSeq(s, k, Len(s))

\* the least index of the set S, n when S is empty
FirstIndex(S, n) == IF S = {} THEN n ELSE CHOOSE i \in S : \A j \in S : i <= j

RECURSIVE SortAscending(_)
\* list.sort(key=BestKey): ascending and stable. The last element goes before
\* the first element of the sorted rest whose key is greater than its own.
SortAscending(s) ==
    IF s = <<>> THEN <<>>
    ELSE LET front == SortAscending(SubSeq(s, 1, Len(s) - 1))
             x == s[Len(s)]
             later == {i \in DOMAIN front : KeyLess(BestKey(x), BestKey(front[i]))}
         IN InsertAt(front, x, FirstIndex(later, Len(front) + 1))

\* the list turned end for end
Reversed(s) == [i \in DOMAIN s |-> s[Len(s) + 1 - i]]

RECURSIVE SortAscendingWorstKey(_)
SortAscendingWorstKey(s) ==
    IF s = <<>> THEN <<>>
    ELSE LET front == SortAscendingWorstKey(SubSeq(s, 1, Len(s) - 1))
             x == s[Len(s)]
             later == {i \in DOMAIN front : KeyLess(WorstKey(x), WorstKey(front[i]))}
         IN InsertAt(front, x, FirstIndex(later, Len(front) + 1))

\* sorted(time_slots, key=WorstKey)[::-1]: descending, equal keys turned around
SortThenReverse(s) == Reversed(SortAscendingWorstKey(s))

RECURSIVE SortDescending(_)
\* list.sort(key=WorstKey, reverse=True): descending and stable. The last
\* element goes before the first element of the sorted rest whose key is less
\* than its own.
SortDescending(s) ==
    IF s = <<>> THEN <<>>
    ELSE LET front == SortDescending(SubSeq(s, 1, Len(s) - 1))
             x == s[Len(s)]
             later == {i \in DOMAIN front : KeyLess(WorstKey(front[i]), WorstKey(x))}
         IN InsertAt(front, x, FirstIndex(later, Len(front) + 1))

\* get_best_times, given the dict get_data_by_time_of_day returned
BestOf(data, top_n) ==
    IF data = <<>> THEN <<>> ELSE Take(SortAscending(TimeSlots(data)), top_n)

\* get_worst_times, given the dict get_data_by_time_of_day returned
WorstOf(data, top_n) ==
    IF data = <<>> THEN <<>> ELSE Take(SortDescending(TimeSlots(data)), top_n)

get_best_times(facs, usage, name, days_back, top_n, clock) ==
    LET d == get_data_by_time_of_day(facs, usage, name, days_back, clock)
    IN [facilities |-> d.facilities, result |-> BestOf(d.result, top_n)]

get_worst_times(facs, usage, name, days_back, top_n, clock) ==
    LET d == get_data_by_time_of_day(facs, usage, name, days_back, clock)
    IN [facilities |-> d.facilities, result |-> WorstOf(d.result, top_n)]

\* sum(percentages) / len(percentages)
Mean(percentages) == RatDivInt(SumRat(percentages), Len(percentages))

RECURSIVE Repeated(_, _)
Repeated(x, k) == IF k = 0 THEN <<>> ELSE <<x>> \o Repeated(x, k - 1)

RECURSIVE PercentagesPerSample(_)
\* the list of percentages were a bucket to enter it once for each of its
\* samples
PercentagesPerSample(times) ==
    IF times = <<>> THEN <<>>
    ELSE (IF IsNone(Head(times).stats.avg_percentage) THEN <<>>
          ELSE Repeated(Val(Head(times).stats.avg_percentage),
                        Head(times).stats.sample_count))
             \o PercentagesPerSample(Tail(times))

\* [stats['avg_percentage'] for ... if stats['avg_percentage'] is not None]
Percentages(times) ==
    LET given == SelectSeq(times, LAMBDA e : ~IsNone(e.stats.avg_percentage))
    IN [i \in DOMAIN given |-> Val(given[i].stats.avg_percentage)]

RECURSIVE DailyOf(_)
\* get_daily_patterns, given the dict get_data_by_time_of_day returned: a dict
\* as the sequence of its [key, value] items
DailyOf(data) ==
    IF data = <<>> THEN <<>>
    ELSE (IF Percentages(Head(data).times) # <<>>
          THEN <<[key |-> Head(data).day, value |-> Mean(Percentages(Head(data).times))]>>
          ELSE <<>>)
             \o DailyOf(Tail(data))

RECURSIVE AllTimes(_)
\* for day, times in data.items(): for time_str, stats in times.items()
AllTimes(data) ==
    IF data = <<>> THEN <<>> ELSE Head(data).times \o AllTimes(Tail(data))

RECURSIVE HourKeys(_, _)
\* the keys of hourly_averages in the order they are first put in
HourKeys(entries, seen) ==
    IF entries = <<>> THEN seen
    ELSE HourKeys(Tail(entries),
                  IF \E i \in DOMAIN seen : seen[i] = HourOf(Head(entries).time)
                  THEN seen ELSE Append(seen, HourOf(Head(entries).time)))

RECURSIVE HourlyAvg(_, _)
\* for hour, percentages in hourly_averages.items(): if percentages: ...
HourlyAvg(hours, entries) ==
    IF hours = <<>> THEN <<>>
    ELSE LET percentages ==
                 Percentages(SelectSeq(entries, LAMBDA e : HourOf(e.time) = Head(hours)))
         IN (IF percentages # <<>>
             THEN <<[key |-> Head(hours), value |-> Mean(percentages)]>> ELSE <<>>)
                \o HourlyAvg(Tail(hours), entries)

\* get_hourly_patterns, given the dict get_data_by_time_of_day returned
HourlyOf(data) ==
    IF data = <<>> THEN <<>> ELSE HourlyAvg(HourKeys(AllTimes(data), <<>>), AllTimes(data))

get_daily_patterns(facs, usage, name, days_back, clock) ==
    LET d == get_data_by_time_of_day(facs, usage, name, days_back, clock)
    IN [facilities |-> d.facilities, result |-> DailyOf(d.result)]

get_hourly_patterns(facs, usage, name, days_back, clock) ==
    LET d == get_data_by_time_of_day(facs, usage, name, days_back, clock)
    IN [facilities |-> d.facilities, result |-> HourlyOf(d.result)]

----------------------------------------------------------------------------
(* scraper.py: text *)
(*                                                                         *)
(* A text is a sequence of lines and a line a sequence of tokens, each one *)
(* of the pieces the regular expressions of the scraper tell apart:        *)
(*   Word(w)   a word without a digit, "/" or "%"                          *)
(*   Frac(a,b) digits "/" digits, as in "45/200" or "45 / 200"             *)
(*   Pct(n,t)  digits, an optional "." digit, and "%", as in "45%", "22.5%"*)
(*   DotPct    ".%": a percent sign after dots without a digit             *)

Word(w) == [k |-> "word", w |-> w]
Frac(a, b) == [k |-> "frac", occ |-> a, cap |-> b]
Pct(n, t) == [k |-> "pct", whole |-> n, tenths |-> t]
DotPct == [k |-> "dot"]

\* the known names a word holds once both are lower-cased (name.lower() in text.lower())
LowerNamesIn(w) ==
    CASE w \in {"CoRec", "corec"} -> {"corec"}
      [] w \in {"TREC", "trec"} -> {"trec"}
      [] w = "Boilermaker" -> {"boiler"}
      [] w = "Aquatics" -> {"aquatics"}
      [] w = "Cordova" -> {"cordova"}
      [] w = "Recreation" -> {"recreation"}
      [] w = "Fitness" -> {"fitness"}
      [] w = "Facility" -> {"facility"}
      [] OTHER -> {}

\* name.lower()
Lower(name) ==
    CASE name \in {"CoRec", "Corec"} -> "corec"
      [] name \in {"TREC", "Trec"} -> "trec"
      [] name = "Boiler" -> "boiler"
      [] name = "Aquatics" -> "aquatics"
      [] name = "Cordova" -> "cordova"
      [] name = "Recreation" -> "recreation"
      [] name = "Fitness" -> "fitness"
      [] name = "Facility" -> "facility"

\* the three facility_names lists of the scraper
ExtractNames == <<"CoRec", "Corec", "TREC", "Trec", "Boiler", "Aquatics">>
AllTextNames == <<"CoRec", "Corec", "TREC", "Trec", "Boiler", "Aquatics",
                  "Cordova", "Recreation", "Fitness", "Facility">>
ParseNames == <<"CoRec", "Corec", "TREC", "Trec", "Boiler", "Aquatics",
                "Cordova", "Recreation", "Fitness">>

\* name.lower() in text.lower()
HasName(tokens, name) ==
    \E i \in DOMAIN tokens :
        tokens[i].k = "word" /\ Lower(name) \in LowerNamesIn(tokens[i].w)

\* for name in names: if name.lower() in text.lower(): ...; break
FirstName(names, tokens) ==
    LET hits == {i \in DOMAIN names : HasName(tokens, names[i])}
    IN IF hits = {} THEN None ELSE Some(names[FirstIndex(hits, 0)])

\* the first token of a kind, None when there is none
FirstOfKind(tokens, kinds) ==
    LET hits == {i \in DOMAIN tokens : tokens[i].k \in kinds}
    IN IF hits = {} THEN None ELSE Some(tokens[FirstIndex(hits, 0)])

\* float(match.group(1)) for r'(\d+\.?\d*)%' : the whole number and its decimal
PctValue(tok) ==
    IF IsNone(tok.tenths) THEN RatOfInt(tok.whole)
    ELSE Rat(tok.whole * 10 + Val(tok.tenths), 10)

\* (occupancy / capacity) * 100
Percentage(occupancy, capacity) == Rat(occupancy * 100, capacity)

FacilityDict(name, occupancy, capacity, percentage, clock) ==
    [name |-> name, occupancy |-> occupancy, capacity |-> capacity,
     percentage |-> percentage, timestamp |-> clock]

\* what a call gives: nothing (None), a value, or an exception that leaves it
Nothing == [kind |-> "none"]
Found(v) == [kind |-> "value", v |-> v]
Raised(e) == [kind |-> "raise", e |-> e]

\* _parse_facility_text(text)
ParseFacilityText(tokens, clock) ==
    LET facility_name == FirstName(ParseNames, tokens)
        frac == FirstOfKind(tokens, {"frac"})
        pct == FirstOfKind(tokens, {"pct"})
    IN IF IsNone(facility_name) THEN Nothing
       ELSE IF ~IsNone(frac)
       THEN IF Val(frac).cap = 0 THEN Raised("ZeroDivisionError")
            ELSE Found(FacilityDict(Val(facility_name), Some(Val(frac).occ),
                                    Some(Val(frac).cap),
                                    Some(Percentage(Val(frac).occ, Val(frac).cap)), clock))
       ELSE IF ~IsNone(pct)
       THEN Found(FacilityDict(Val(facility_name), None, None,
                               Some(PctValue(Val(pct))), clock))
       ELSE Nothing

RECURSIVE ParseLines(_, _, _, _)
\* the loop of _parse_all_text over the lines left, with current_facility and
\* the facilities found so far; an exception of the parser leaves the loop
ParseLines(lines, current_facility, facilities_found, clock) ==
    IF lines = <<>> THEN Found(facilities_found)
    ELSE LET line == Head(lines)
             seen == FirstName(AllTextNames, line)
             cur == IF IsNone(seen) THEN current_facility ELSE seen
             facility_data == ParseFacilityText(line, clock)
         IN IF line = <<>>
            THEN ParseLines(Tail(lines), current_facility, facilities_found, clock)
            ELSE IF IsNone(cur)
            THEN ParseLines(Tail(lines), cur, facilities_found, clock)
            ELSE IF facility_data.kind = "raise" THEN facility_data
            ELSE IF facility_data.kind = "value"
            THEN ParseLines(Tail(lines), None,
                            Append(facilities_found, facility_data.v), clock)
            ELSE ParseLines(Tail(lines), cur, facilities_found, clock)

\* _parse_all_text(text)
ParseAllText(lines, clock) == ParseLines(lines, None, <<>>, clock)

----------------------------------------------------------------------------
(* scraper.py: the strategies over a rendered document *)
(*                                                                         *)
(* A document is a record of what the selectors of the scraper find in it: *)
(*   tables   the <tr> rows of its tables: [cells, text]                   *)
(*   widgets  the .rw-c2c-feed__location elements: [name, capacity], the   *)
(*            text of each sub-element, None when the sub-element is       *)
(*            missing                                                      *)
(*   generic  the other elements: [sel, text], sel the selectors of        *)
(*            _find_in_divs the element matches                            *)
(*   scripts  the <script> elements: the sequence of the {...} fragments   *)
(*            holding "facility" in each: [parses, data]                   *)
(*   body     the visible text of <body>, as lines                         *)

RECURSIVE ParseEach(_, _, _)
\* for text in texts: facility_data = _parse_facility_text(text); if
\* facility_data: facilities.append(facility_data), inside a try whose except
\* clause falls through to `return facilities`
ParseEach(texts, facilities_found, clock) ==
    IF texts = <<>> THEN facilities_found
    ELSE LET facility_data == ParseFacilityText(Head(texts), clock)
         IN IF facility_data.kind = "raise" THEN facilities_found
            ELSE ParseEach(Tail(texts),
                           IF facility_data.kind = "value"
                           THEN Append(facilities_found, facility_data.v)
                           ELSE facilities_found,
                           clock)

\* _find_in_tables()
FindInTables(doc, clock) ==
    LET rows == SelectSeq(doc.tables, LAMBDA row : row.cells >= 2)
    IN ParseEach([i \in DOMAIN rows |-> rows[i].text], <<>>, clock)

\* re.search(r'Capacity:\s*(\d+)\s*/\s*(\d+)\s*//\s*([\d.]+)%', capacity_text):
\* the tokens of the first match, None when there is none
CapacityMatch(tokens) ==
    LET hits == {i \in DOMAIN tokens :
                    /\ i + 3 <= Len(tokens)
                    /\ tokens[i] = Word("Capacity:")
                    /\ tokens[i + 1].k = "frac"
                    /\ tokens[i + 2] = Word("//")
                    /\ tokens[i + 3].k \in {"pct", "dot"}}
    IN IF hits = {} THEN None
       ELSE LET i == FirstIndex(hits, 0)
            IN Some([frac |-> tokens[i + 1], pct |-> tokens[i + 3]])

\* the body of the loop over location_divs: the dict it appends, Nothing when
\* it goes on to the next element without one
WidgetReading(location_div, clock) ==
    IF IsNone(location_div.name) \/ IsNone(location_div.capacity)
    THEN Nothing                            \* except NoSuchElementException: continue
    ELSE LET match == CapacityMatch(Val(location_div.capacity)) IN
         IF IsNone(match) THEN Nothing
         ELSE IF Val(match).pct.k = "dot"
         THEN Nothing                        \* float('.') raises; except Exception: continue
         ELSE Found(FacilityDict(Val(location_div.name), Some(Val(match).frac.occ),
                                 Some(Val(match).frac.cap),
                                 Some(PctValue(Val(match).pct)), clock))

RECURSIVE FindWidgetsUntilFailure(_, _)
\* the loop over location_divs were it to end at the first element it gets no
\* dict from
FindWidgetsUntilFailure(location_divs, clock) ==
    IF location_divs = <<>> THEN <<>>
    ELSE LET w == WidgetReading(Head(location_divs), clock)
         IN IF w.kind = "value"
            THEN <<w.v>> \o FindWidgetsUntilFailure(Tail(location_divs), clock)
            ELSE <<>>

RECURSIVE FindWidgets(_, _)
\* for location_div in location_divs: ...
FindWidgets(location_divs, clock) ==
    IF location_divs = <<>> THEN <<>>
    ELSE LET w == WidgetReading(Head(location_divs), clock)
         IN (IF w.kind = "value" THEN <<w.v>> ELSE <<>>)
                \o FindWidgets(Tail(location_divs), clock)

Selectors ==
    <<"[class*='facility']", "[class*='usage']", "[class*='occupancy']",
      "[id*='facility']", "[id*='usage']">>

RECURSIVE GenericTexts(_, _)
\* for selector in selectors: for elem in find_elements(selector): text = elem.text
GenericTexts(selectors, elements) ==
    IF selectors = <<>> THEN <<>>
    ELSE LET found == SelectSeq(elements, LAMBDA e : Head(selectors) \in e.sel)
         IN [i \in DOMAIN found |-> found[i].text]
                \o GenericTexts(Tail(selectors), elements)

\* _find_in_divs()
FindInDivs(doc, clock) ==
    LET facilities_found == FindWidgets(doc.widgets, clock)
    IN IF facilities_found # <<>> THEN facilities_found
       ELSE ParseEach(GenericTexts(Selectors, doc.generic), <<>>, clock)

\* a or b
OrInt(a, b) == IF TruthyInt(a) THEN a ELSE b
OrRat(a, b) == IF TruthyRat(a) THEN a ELSE b
OrStr(a, b) == IF ~IsNone(a) /\ Val(a) # "" THEN a ELSE b

\* data.get(key): a JSON object is a record of its keys, null being None
Get(data, key) == IF key \in DOMAIN data THEN data[key] ELSE None

\* _convert_json_to_facility(data)
ConvertJsonToFacility(data, clock) ==
    LET name == Val(OrStr(OrStr(Get(data, "name"), Get(data, "facility")), Some("Unknown")))
        occupancy == OrInt(Get(data, "occupancy"), Get(data, "current"))
        capacity == OrInt(Get(data, "capacity"), Get(data, "max"))
        percentage == OrRat(Get(data, "percentage"), Get(data, "percent"))
    IN FacilityDict(name, occupancy, capacity,
           IF TruthyInt(occupancy) /\ TruthyInt(capacity) /\ ~TruthyRat(percentage)
           THEN Some(Percentage(Val(occupancy), Val(capacity)))
           ELSE percentage,
           clock)

RECURSIVE ConvertFragments(_, _)
\* for match in json_matches: try: data = json.loads(match); if 'name' in data
\* or 'facility' in data: append(...) except: pass
ConvertFragments(fragments, clock) ==
    IF fragments = <<>> THEN <<>>
    ELSE LET f == Head(fragments)
         IN (IF f.parses /\ ("name" \in DOMAIN f.data \/ "facility" \in DOMAIN f.data)
             THEN <<ConvertJsonToFacility(f.data, clock)>> ELSE <<>>)
                \o ConvertFragments(Tail(fragments), clock)

RECURSIVE FindJsonData(_, _)
\* _find_json_data(), given the scripts of the document
FindJsonData(scripts, clock) ==
    IF scripts = <<>> THEN <<>>
    ELSE ConvertFragments(Head(scripts), clock) \o FindJsonData(Tail(scripts), clock)

----------------------------------------------------------------------------
(* scraper.py: the lightweight fetch *)
(*                                                                         *)
(* The fetched page is [ok, elements]: ok is FALSE when requests.get or    *)
(* raise_for_status raises; elements are the div/span/td elements whose    *)
(* class matches facility|usage|occupancy, each [text, ancestors], the     *)
(* ancestors' texts from the parent outwards.                              *)

\* re.search(r'(\d+)\s*/\s*(\d+)|(\d+)%', text): the leftmost match
LightMatch(tokens) == FirstOfKind(tokens, {"frac", "pct"})

\* float(match.group(3)): the digits that stand right before the "%"
LightPctValue(tok) ==
    IF IsNone(tok.tenths) THEN RatOfInt(tok.whole) ELSE RatOfInt(Val(tok.tenths))

\* _extract_facility_name(element)
ExtractFacilityName(element) ==
    LET levels == {i \in DOMAIN element.ancestors :
                      i <= 3 /\ ~IsNone(FirstName(ExtractNames, element.ancestors[i]))}
    IN IF levels = {} THEN None
       ELSE FirstName(ExtractNames, element.ancestors[FirstIndex(levels, 0)])

RECURSIVE LightElements(_, _, _)
\* the loop over facility_elements: the list found, or the exception that leaves it
LightElements(elements, facilities_found, clock) ==
    IF elements = <<>> THEN Found(facilities_found)
    ELSE LET elem == Head(elements)
             match == LightMatch(elem.text)
             facility_name == ExtractFacilityName(elem)
             dict == IF Val(match).k = "frac"
                     THEN FacilityDict(Val(facility_name), Some(Val(match).occ),
                                       Some(Val(match).cap),
                                       Some(Percentage(Val(match).occ, Val(match).cap)), clock)
                     ELSE FacilityDict(Val(facility_name), None, None,
                                       Some(LightPctValue(Val(match))), clock)
         IN IF IsNone(match) THEN LightElements(Tail(elements), facilities_found, clock)
            ELSE IF Val(match).k = "frac" /\ Val(match).cap = 0
            THEN Raised("ZeroDivisionError")
            ELSE IF IsNone(facility_name)
            THEN LightElements(Tail(elements), facilities_found, clock)
            ELSE LightElements(Tail(elements), Append(facilities_found, dict), clock)

\* _try_requests_first(): None, or the non-empty list it returns
TryRequestsFirst(fetched, clock) ==
    IF ~fetched.ok THEN None
    ELSE LET r == LightElements(fetched.elements, <<>>, clock)
         IN IF r.kind = "raise" \/ r.v = <<>> THEN None ELSE Some(r.v)

----------------------------------------------------------------------------
(* scraper.py: the engine *)
(*                                                                         *)
(* The site is [fetched, frames, main]: what requests.get obtains, the      *)
(* documents of the iframes of the rendered page in order, and the document *)
(* of the rendered page itself.  The environment of one scrape() is         *)
(* [setup_ok, get_ok]: whether webdriver.Chrome(...) and driver.get(url)    *)
(* return rather than raise.                                                *)

\* one step of a scrape: what was done, and in which iframe (0: the page itself)
Ev(e, i) == [e |-> e, i |-> i]

\* "%" in body_text or "/" in body_text
HasDataChars(lines) ==
    \E i \in DOMAIN lines : \E j \in DOMAIN lines[i] :
        \/ lines[i][j].k \in {"frac", "pct", "dot"}
        \/ lines[i][j] = Word("//")

\* the steps of one pass of the loop over iframes
FrameLog(i, text_parsed) ==
    <<Ev("switch_to_frame", i), Ev("find_in_tables", i), Ev("find_in_divs", i)>>
        \o (IF text_parsed THEN <<Ev("parse_all_text", i)>> ELSE <<>>)
        \o <<Ev("default_content", i)>>

\* one pass of the loop over iframes were its except clause not to call
\* switch_to.default_content()
FrameResultLeftInFrame(structured, body_text, parsed, i) ==
    IF structured # <<>> \/ body_text = <<>> \/ ~HasDataChars(body_text)
    THEN [facilities |-> structured, log |-> FrameLog(i, FALSE)]
    ELSE IF parsed.kind = "raise"
    THEN [facilities |-> <<>>,
          log |-> <<Ev("switch_to_frame", i), Ev("find_in_tables", i),
                    Ev("find_in_divs", i), Ev("parse_all_text", i)>>]
    ELSE [facilities |-> parsed.v, log |-> FrameLog(i, TRUE)]

\* what one pass of the loop over iframes extends facilities with, given what
\* the two strategies found, the visible text, and what _parse_all_text gives
\* for it; an exception of _parse_all_text leaves the pass with nothing
FrameResult(structured, body_text, parsed, i) ==
    IF structured # <<>> \/ body_text = <<>> \/ ~HasDataChars(body_text)
    THEN [facilities |-> structured, log |-> FrameLog(i, FALSE)]
    ELSE [facilities |-> IF parsed.kind = "raise" THEN <<>> ELSE parsed.v,
          log |-> FrameLog(i, TRUE)]

\* the body of the loop over iframes
FrameStep(doc, i, clock) ==
    FrameResult(FindInTables(doc, clock) \o FindInDivs(doc, clock), doc.body,
                ParseAllText(doc.body, clock), i)

\* facilities.extend(iframe_facilities), and the steps in order
Extend(step, rest) ==
    [facilities |-> step.facilities \o rest.facilities, log |-> step.log \o rest.log]

\* the pass over a frame ended in an exception of _parse_all_text
FrameFailed(doc, clock) ==
    /\ FindInTables(doc, clock) \o FindInDivs(doc, clock) = <<>>
    /\ HasDataChars(doc.body)
    /\ ParseAllText(doc.body, clock).kind = "raise"

RECURSIVE FramesLoopUntilFailure(_, _, _)
\* the loop over iframes were the try block to stand around it: the first
\* exception ends it
FramesLoopUntilFailure(frames, i, clock) ==
    IF i > Len(frames) THEN [facilities |-> <<>>, log |-> <<>>]
    ELSE IF FrameFailed(frames[i], clock) THEN FrameStep(frames[i], i, clock)
    ELSE Extend(FrameStep(frames[i], i, clock),
                FramesLoopUntilFailure(frames, i + 1, clock))

RECURSIVE FramesLoop(_, _, _)
\* for i, iframe in enumerate(iframes): ...
FramesLoop(frames, i, clock) ==
    IF i > Len(frames) THEN [facilities |-> <<>>, log |-> <<>>]
    ELSE Extend(FrameStep(frames[i], i, clock), FramesLoop(frames, i + 1, clock))

\* the main page given what the three strategies found and what
\* _parse_all_text gives for the visible text, the last resort
MainResult(structured, parsed) ==
    IF structured # <<>>
    THEN [facilities |-> structured,
          log |-> <<Ev("find_in_tables", 0), Ev("find_in_divs", 0), Ev("find_json_data", 0)>>]
    ELSE [facilities |-> IF parsed.kind = "raise" THEN <<>> ELSE parsed.v,
          log |-> <<Ev("find_in_tables", 0), Ev("find_in_divs", 0),
                    Ev("find_json_data", 0), Ev("parse_all_text", 0)>>]

\* the main page were the loop over the strategies to stop at the first one
\* that finds something
MainPageFirstHit(doc, clock) ==
    MainResult(IF FindInTables(doc, clock) # <<>> THEN FindInTables(doc, clock)
               ELSE IF FindInDivs(doc, clock) # <<>> THEN FindInDivs(doc, clock)
               ELSE FindJsonData(doc.scripts, clock),
               ParseAllText(doc.body, clock))

\* the "if not facilities:" block over the main page
MainPage(doc, clock) ==
    MainResult(FindInTables(doc, clock) \o FindInDivs(doc, clock)
                   \o FindJsonData(doc.scripts, clock),
               ParseAllText(doc.body, clock))

\* the iframes first; the main page only when they gave nothing
Rendered(inFrames, inMain) ==
    IF inFrames.facilities # <<>> THEN inFrames
    ELSE [facilities |-> inMain.facilities, log |-> inFrames.log \o inMain.log]

\* scrape_with_selenium() were driver.get(url) to stand outside its try block
SeleniumRaisesOnGet(drv, env, found) ==
    IF drv = "none" /\ ~env.setup_ok
    THEN [ret |-> Raised("WebDriverException"), driver |-> "none",
          log |-> <<Ev("setup_driver", 0)>>]
    ELSE IF ~env.get_ok
    THEN [ret |-> Raised("WebDriverException"), driver |-> "open",
          log |-> (IF drv = "none" THEN <<Ev("setup_driver", 0)>> ELSE <<>>)
                    \o <<Ev("get", 0)>>]
    ELSE [ret |-> Found(found.facilities), driver |-> "open",
          log |-> (IF drv = "none" THEN <<Ev("setup_driver", 0)>> ELSE <<>>)
                    \o <<Ev("get", 0)>> \o found.log
                    \o (IF found.facilities = <<>>
                        THEN <<Ev("save_page_source", 0)>> ELSE <<>>)]

\* scrape_with_selenium() given what the rendered page holds: what it returns
\* or raises, the driver it leaves and the steps it takes
SeleniumResult(drv, env, found) ==
    IF drv = "none" /\ ~env.setup_ok
    THEN [ret |-> Raised("WebDriverException"), driver |-> "none",
          log |-> <<Ev("setup_driver", 0)>>]
    ELSE [ret |-> Found(IF env.get_ok THEN found.facilities ELSE <<>>),
          driver |-> "open",
          log |-> (IF drv = "none" THEN <<Ev("setup_driver", 0)>> ELSE <<>>)
                    \o <<Ev("get", 0)>>
                    \o (IF env.get_ok THEN found.log ELSE <<>>)
                    \o (IF env.get_ok /\ found.facilities = <<>>
                        THEN <<Ev("save_page_source", 0)>> ELSE <<>>)]

\* scrape_with_selenium()
ScrapeWithSelenium(site, drv, env, clock) ==
    SeleniumResult(drv, env,
                   Rendered(FramesLoop(site.frames, 1, clock), MainPage(site.main, clock)))

\* scrape() were it to render the page whatever the fetch gave
FallsBackAlways(facilities_found) == TRUE

\* if not facilities: the dynamic tier is needed
FallsBack(facilities_found) == IsNone(facilities_found) \/ Val(facilities_found) = <<>>

\* scrape() given what each tier gives
ScrapeResult(facilities_found, dynamic, drv) ==
    IF FallsBack(facilities_found)
    THEN [ret |-> dynamic.ret, driver |-> dynamic.driver,
          log |-> <<Ev("try_requests_first", 0)>> \o dynamic.log]
    ELSE [ret |-> Found(Val(facilities_found)), driver |-> drv,
          log |-> <<Ev("try_requests_first", 0)>>]

\* scrape()
scrape(site, drv, env, clock) ==
    ScrapeResult(TryRequestsFirst(site.fetched, clock),
                 ScrapeWithSelenium(site, drv, env, clock), drv)

\* close()
close(drv) == "none"

----------------------------------------------------------------------------
(* The inputs of the store and the analyzer *)

\* the most rows the usage_data table is let grow to
MaxRows == 3
\* the largest top_n asked for
MaxTopN == 2

\* two instants in one minute, a later minute of that day, the first minute a day later
Times == {Ts(0, 8, 0, 0), Ts(0, 8, 0, 30), Ts(0, 8, 15, 0), Ts(1, 8, 0, 0)}

\* what a reading carries besides its key
NoValues ==
    [occupancy |-> None, capacity |-> None, percentage |-> None, metadata |-> None]
EmptyHall ==
    [occupancy |-> Some(0), capacity |-> Some(10), percentage |-> Some(<<0, 1>>),
     metadata |-> Some("scraper")]
HalfFull ==
    [occupancy |-> Some(5), capacity |-> Some(10), percentage |-> Some(<<50, 1>>),
     metadata |-> Some("scraper")]
PercentOnly ==
    [occupancy |-> None, capacity |-> None, percentage |-> Some(<<50, 1>>),
     metadata |-> Some("web_scraper")]

Reading(name, t, v) ==
    [facility_name |-> name, timestamp |-> t, occupancy |-> v.occupancy,
     capacity |-> v.capacity, percentage |-> v.percentage, metadata |-> v.metadata]

\* the readings the store specification ingests
StoreReadings ==
    {Reading(n, t, v) : n \in FacilityNames,
                        t \in {Ts(0, 8, 0, 0), Ts(0, 8, 0, 30), Ts(1, 8, 0, 0)},
                        v \in {HalfFull, PercentOnly}}
\* the readings the analyzer specification ingests
AnalyzerReadings ==
    {Reading("CoRec", t, v) : t \in Times, v \in {NoValues, EmptyHall, HalfFull}}

\* the facility the analyzer is asked about: never ingested at first
AnalyzerNames == {"CoRec"}
\* the clock: the morning of the day after the last reading
Clock0 == Ts(2, 9, 0, 0)
\* days_back: a window holding the last day's readings only, and one holding all
DaysBack == {2, 7}
\* the start_date and end_date asked for
Bounds == {None, Some(Ts(0, 8, 0, 30)), Some(Ts(1, 8, 0, 0))}

----------------------------------------------------------------------------
(* app.py: the files of the process *)
(*                                                                         *)
(* _ensure_db() makes db = FacilityDatabase() and analyzer =                *)
(* FacilityAnalyzer() when neither it nor another thread has; each opens a  *)
(* SQLite file.  The configuration of the process is [port, cwd]: whether   *)
(* PORT is set, and the working directory.  `opened` is that configuration  *)
(* with the globals db, analyzer and _db_init_error: the file of db, the    *)
(* file of analyzer.db, the error kept.  `facilities` and `usage_data` are  *)
(* the tables of the file of db; `other_file` holds the tables of the file  *)
(* of analyzer.db when that is another file.  A connection that is left by  *)
(* an exception is not closed: when it had begun to write it keeps the      *)
(* write lock of its file until it is finalized, and `leaked` holds the     *)
(* files locked so: "db" or "other".                                        *)

Configs == [port : BOOLEAN, cwd : {"/app", "/tmp"}]
\* PORT not set, the process started in /app
PlainConfig == [port |-> FALSE, cwd |-> "/app"]

\* _default_db_path(), TMPDIR not set
default_db_path(config) == IF config.port THEN "/tmp/facility_data.db" ELSE "facility_data.db"

\* the file sqlite3.connect(path) opens from the working directory
Resolve(path, cwd) ==
    IF path = "facility_data.db"
    THEN (IF cwd = "/tmp" THEN "/tmp/facility_data.db" ELSE "/app/facility_data.db")
    ELSE path

\* FacilityDatabase(): db_path or _default_db_path()
DbFile(config) == Resolve(default_db_path(config), config.cwd)

\* FacilityAnalyzer(): FacilityDatabase(db_path) with db_path = "facility_data.db"
AnalyzerFile(config) == Resolve("facility_data.db", config.cwd)

\* the globals as app.py leaves them at import
NotOpened(config) == [config |-> config, db |-> None, analyzer |-> None, error |-> None]

\* _ensure_db() statement by statement, no lock held: at "test" the tests of
\* the globals, at "open_db" db = FacilityDatabase(), at "open_analyzer"
\* analyzer = FacilityAnalyzer(); ok is whether the file can be opened at that
\* moment.  It gives where the thread stands after the statement ("true" and
\* "false" are what _ensure_db() returns) and the globals.
ensure_db(stage, o, ok) ==
    IF stage = "test"
    THEN [stage |-> IF ~IsNone(o.db) /\ ~IsNone(o.analyzer) THEN "true"
                    ELSE IF ~IsNone(o.error) THEN "false" ELSE "open_db",
          opened |-> o]
    ELSE IF ~ok
    THEN [stage |-> "false", opened |-> [o EXCEPT !.error = Some("OperationalError")]]
    ELSE IF stage = "open_db"
    THEN [stage |-> "open_analyzer", opened |-> [o EXCEPT !.db = Some(DbFile(o.config))]]
    ELSE [stage |-> "true", opened |-> [o EXCEPT !.analyzer = Some(AnalyzerFile(o.config))]]

\* the statements of _ensure_db()
EnsureStages == {"test", "open_db", "open_analyzer"}

\* db and analyzer.db work on one file
OneFile(o) == o.db = o.analyzer

\* a connection left open is finalized: its transaction is rolled back and
\* the lock it held is released
Finalize ==
    /\ \E file \in leaked : leaked' = leaked \ {file}
    /\ UNCHANGED <<facilities, usage_data, now, call, ret, pc, loc, page, driver, log,
                   collector_running, threads, opened, other_file>>

----------------------------------------------------------------------------
(* The store and the analyzer, one call at a time *)

NoThreads == [w \in {} |-> 0]

\* a document in which no selector finds anything, and a site that serves it
EmptyDoc == [tables |-> <<>>, widgets |-> <<>>, generic |-> <<>>, scripts |-> <<>>, body |-> <<>>]
NoPage == [fetched |-> [ok |-> FALSE, elements |-> <<>>], frames |-> <<>>, main |-> EmptyDoc]

Init ==
    /\ facilities = {}
    /\ usage_data = EmptyBag
    /\ now = Clock0
    /\ call = [op |-> "none"]
    /\ ret = None
    /\ pc = NoThreads
    /\ loc = NoThreads
    /\ page = NoPage
    /\ driver = "none"
    /\ log = <<>>
    /\ collector_running = FALSE
    /\ threads = <<>>
    /\ opened = NotOpened(PlainConfig)
    /\ other_file = [facilities |-> {}, usage_data |-> EmptyBag]
    /\ leaked = {}

\* what the store held for the key of r when insert_usage_data(r) was called:
\* "none", "same" (the row r makes) or "other"
Stored(facs, usage, r) ==
    LET fid == SelectFacilityId(facs, r.facility_name)
        old == {q \in BagToSet(usage) :
                   ~IsNone(fid) /\ q.facility_id = Val(fid) /\ q.timestamp = r.timestamp}
    IN IF old = {} THEN "none"
       ELSE IF old = {UsageRow(Val(fid), r)} THEN "same" ELSE "other"

\* db.insert_usage_data(...)
Ingest(r) ==
    LET d == insert_usage_data(facilities, usage_data, r) IN
    /\ BagCardinality(d.usage_data) <= MaxRows
    /\ facilities' = d.facilities
    /\ usage_data' = d.usage_data
    /\ call' = [op |-> "ingest", stored |-> Stored(facilities, usage_data, r)]
    /\ ret' = None
    /\ UNCHANGED <<now, pc, loc, page, driver, log, appVars>>

\* db.get_facility_data(name, start_date, end_date)
Query(name, start_date, end_date) ==
    LET d == get_facility_data(facilities, usage_data, name, start_date, end_date) IN
    /\ facilities' = d.facilities
    /\ call' = [op |-> "query", name |-> name, start_date |-> start_date,
                end_date |-> end_date]
    /\ ret' = d.result
    /\ UNCHANGED <<usage_data, now, pc, loc, page, driver, log, appVars>>

\* db.get_all_facilities()
ListFacilities ==
    /\ call' = [op |-> "list"]
    /\ ret' = get_all_facilities(facilities)
    /\ UNCHANGED <<facilities, usage_data, now, pc, loc, page, driver, log, appVars>>

\* db.get_data_by_time_of_day(name, days_back)
BucketStats(name, days_back) ==
    LET d == get_data_by_time_of_day(facilities, usage_data, name, days_back, now) IN
    /\ facilities' = d.facilities
    /\ call' = [op |-> "bucket_stats", name |-> name, days_back |-> days_back]
    /\ ret' = d.result
    /\ UNCHANGED <<usage_data, now, pc, loc, page, driver, log, appVars>>

\* analyzer.get_best_times(name, days_back, top_n)
BestTimes(name, days_back, top_n) ==
    LET d == get_best_times(facilities, usage_data, name, days_back, top_n, now) IN
    /\ facilities' = d.facilities
    /\ call' = [op |-> "best", name |-> name, days_back |-> days_back, top_n |-> top_n]
    /\ ret' = d.result
    /\ UNCHANGED <<usage_data, now, pc, loc, page, driver, log, appVars>>

\* analyzer.get_worst_times(name, days_back, top_n)
WorstTimes(name, days_back, top_n) ==
    LET d == get_worst_times(facilities, usage_data, name, days_back, top_n, now) IN
    /\ facilities' = d.facilities
    /\ call' = [op |-> "worst", name |-> name, days_back |-> days_back, top_n |-> top_n]
    /\ ret' = d.result
    /\ UNCHANGED <<usage_data, now, pc, loc, page, driver, log, appVars>>

\* analyzer.get_daily_patterns(name, days_back)
DailyPatterns(name, days_back) ==
    LET d == get_daily_patterns(facilities, usage_data, name, days_back, now) IN
    /\ facilities' = d.facilities
    /\ call' = [op |-> "daily", name |-> name, days_back |-> days_back]
    /\ ret' = d.result
    /\ UNCHANGED <<usage_data, now, pc, loc, page, driver, log, appVars>>

\* analyzer.get_hourly_patterns(name, days_back)
HourlyPatterns(name, days_back) ==
    LET d == get_hourly_patterns(facilities, usage_data, name, days_back, now) IN
    /\ facilities' = d.facilities
    /\ call' = [op |-> "hourly", name |-> name, days_back |-> days_back]
    /\ ret' = d.result
    /\ UNCHANGED <<usage_data, now, pc, loc, page, driver, log, appVars>>

\* the store alone
NextStore ==
    \/ \E r \in StoreReadings : Ingest(r)
    \/ \E n \in FacilityNames, s \in Bounds, e \in Bounds : Query(n, s, e)
    \/ ListFacilities

SpecStore == Init /\ [][NextStore]_vars

\* the analyzer over the store
NextAnalyzer ==
    \/ \E r \in AnalyzerReadings : Ingest(r)
    \/ \E n \in AnalyzerNames, d \in DaysBack : BucketStats(n, d)
    \/ \E n \in AnalyzerNames, d \in DaysBack, k \in 0..MaxTopN : BestTimes(n, d, k)
    \/ \E n \in AnalyzerNames, d \in DaysBack, k \in 0..MaxTopN : WorstTimes(n, d, k)
    \/ \E n \in AnalyzerNames, d \in DaysBack : DailyPatterns(n, d)
    \/ \E n \in AnalyzerNames, d \in DaysBack : HourlyPatterns(n, d)

SpecAnalyzer == Init /\ [][NextAnalyzer]_vars

----------------------------------------------------------------------------
(* The store under concurrent callers: insert_usage_data statement by      *)
(* statement.  Every call opens its own connection; a SELECT sees the      *)
(* committed tables and an INSERT with the commit that follows it is one   *)
(* write transaction, which SQLite runs apart from any other.  An INSERT   *)
(* that finds the file locked waits the 5 seconds of sqlite3's timeout for *)
(* the lock: it goes on when the lock is released, and raises              *)
(* OperationalError when it is not.                                        *)

Threads == {"collector", "endpoint"}

ConcurrentReadings ==
    {Reading(n, t, HalfFull) : n \in FacilityNames, t \in {Ts(0, 8, 0, 0), Ts(0, 8, 0, 30)}}

NoLocals == [reading |-> None, result |-> None, facility_id |-> None]

InitConcurrent ==
    /\ facilities = {}
    /\ usage_data = EmptyBag
    /\ now = Clock0
    /\ call = [op |-> "none"]
    /\ ret = None
    /\ pc = [w \in Threads |-> "idle"]
    /\ loc = [w \in Threads |-> NoLocals]
    /\ page = NoPage
    /\ driver = "none"
    /\ log = <<>>
    /\ collector_running = FALSE
    /\ threads = <<>>
    /\ opened = NotOpened(PlainConfig)
    /\ other_file = [facilities |-> {}, usage_data |-> EmptyBag]
    /\ leaked = {}

\* a thread calls insert_usage_data(r), which calls get_or_create_facility
Begin(w, r) ==
    /\ pc[w] \in {"idle", "returned", "raised"}
    /\ pc' = [pc EXCEPT ![w] = "select"]
    /\ loc' = [loc EXCEPT ![w] = [reading |-> Some(r), result |-> None, facility_id |-> None]]
    /\ UNCHANGED <<facilities, usage_data, now, call, ret, page, driver, log, appVars>>

\* cursor.execute("SELECT id FROM facilities WHERE name = ?"); result = cursor.fetchone()
Select(w) ==
    /\ pc[w] = "select"
    /\ LET result == SelectFacilityId(facilities, Val(loc[w].reading).facility_name) IN
       /\ loc' = [loc EXCEPT ![w].result = result, ![w].facility_id = result]
       /\ pc' = [pc EXCEPT ![w] = IF ~IsNone(result) THEN "upsert" ELSE "create"]
    /\ UNCHANGED <<facilities, usage_data, now, call, ret, page, driver, log, appVars>>

\* the else branch: INSERT INTO facilities; facility_id = cursor.lastrowid; commit
Create(w) ==
    /\ pc[w] = "create"
    /\ "db" \notin leaked
    /\ ~FacilityNameTaken(facilities, Val(loc[w].reading).facility_name)
    /\ facilities' = InsertFacility(facilities, Val(loc[w].reading).facility_name)
    /\ loc' = [loc EXCEPT ![w].facility_id = Some(NextFacilityId(facilities))]
    /\ pc' = [pc EXCEPT ![w] = "upsert"]
    /\ UNCHANGED <<usage_data, now, call, ret, page, driver, log, appVars>>

\* the INSERT meets a row of that name: sqlite3.IntegrityError leaves the
\* call, conn.close() is not reached and the connection keeps the write lock
CreateRaises(w) ==
    /\ pc[w] = "create"
    /\ "db" \notin leaked
    /\ FacilityNameTaken(facilities, Val(loc[w].reading).facility_name)
    /\ pc' = [pc EXCEPT ![w] = "raised"]
    /\ leaked' = leaked \cup {"db"}
    /\ UNCHANGED <<facilities, usage_data, now, call, ret, loc, page, driver, log,
                   collector_running, threads, opened, other_file>>

\* an INSERT of the call finds the file locked until its timeout:
\* sqlite3.OperationalError leaves the call
WriteLocked(w) ==
    /\ pc[w] \in {"create", "upsert"}
    /\ "db" \in leaked
    /\ pc' = [pc EXCEPT ![w] = "raised"]
    /\ UNCHANGED <<facilities, usage_data, now, call, ret, loc, page, driver, log, appVars>>

\* INSERT OR REPLACE INTO usage_data ...; commit
Upsert(w) ==
    /\ pc[w] = "upsert"
    /\ "db" \notin leaked
    /\ usage_data' = InsertOrReplace(usage_data,
                          UsageRow(Val(loc[w].facility_id), Val(loc[w].reading)))
    /\ pc' = [pc EXCEPT ![w] = "returned"]
    /\ UNCHANGED <<facilities, now, call, ret, loc, page, driver, log, appVars>>

\* a reader calls get_all_facilities between the statements of the writers
ConcurrentList ==
    /\ call' = [op |-> "list"]
    /\ ret' = get_all_facilities(facilities)
    /\ UNCHANGED <<facilities, usage_data, now, pc, loc, page, driver, log, appVars>>

NextConcurrent ==
    \/ \E w \in Threads, r \in ConcurrentReadings : Begin(w, r)
    \/ \E w \in Threads : Select(w)
    \/ \E w \in Threads : Create(w)
    \/ \E w \in Threads : CreateRaises(w)
    \/ \E w \in Threads : Upsert(w)
    \/ \E w \in Threads : WriteLocked(w)
    \/ Finalize
    \/ ConcurrentList

SpecConcurrent == InitConcurrent /\ [][NextConcurrent]_vars

----------------------------------------------------------------------------
(* Claims about the store *)

\* what a reader can learn of the store: the facility names and, per
\* facility, its readings in timestamp order
ReadingsOf(facs, usage, name) ==
    LET fid == SelectFacilityId(facs, name)
        rows == IF IsNone(fid) THEN <<>>
                ELSE SortByTimestamp(SelectUsage(usage, Val(fid), None, None))
    IN [i \in DOMAIN rows |-> ResultDict(rows[i])]

Contents(facs, usage) ==
    [names |-> get_all_facilities(facs),
     readings |-> [n \in FacilityNames |-> ReadingsOf(facs, usage, n)]]

\* the entry a query returns for a stored reading r
Entry(r) ==
    [timestamp |-> r.timestamp, occupancy |-> r.occupancy, capacity |-> r.capacity,
     percentage |-> r.percentage, metadata |-> r.metadata]

\* the entries of the readings of r's facility that carry r's timestamp
EntriesAt(facs, usage, r) ==
    LET q == ReadingsOf(facs, usage, r.facility_name)
    IN SelectSeq(q, LAMBDA e : e.timestamp = r.timestamp)

\* C1: ingest is idempotent: after ingest(r) the store holds exactly one row
\* for the key of r, the row of r, and an ingest(r) of a store that holds it
\* (as the store does after ingest(r)) leaves the facility names and the
\* readings of every facility as they were.
C1_IngestIdempotent ==
    [][\A r \in StoreReadings :
          (call'.op = "ingest" /\ Ingest(r)) =>
             /\ EntriesAt(facilities', usage_data', r) = <<Entry(r)>>
             /\ Stored(facilities', usage_data', r) = "same"
             /\ (Stored(facilities, usage_data, r) = "same" =>
                    Contents(facilities', usage_data') = Contents(facilities, usage_data))
      ]_vars

\* a reading was ingested into a store that already held its row
C1_Witness ==
    /\ call.op = "ingest" /\ call.stored = "same"
    /\ BagCardinality(usage_data) >= 2

\* C2: last write wins: ingesting r where another row is stored for the key
\* of r makes a following query of the facility return, at that timestamp,
\* exactly the values of r (absent ones included), and leaves the number of
\* rows of the facility unchanged.
C2_LastWriteWins ==
    [][\A r \in StoreReadings :
          (call'.op = "ingest" /\ call'.stored = "other" /\ Ingest(r)) =>
             /\ EntriesAt(facilities', usage_data', r) = <<Entry(r)>>
             /\ Len(ReadingsOf(facilities', usage_data', r.facility_name))
                  = Len(ReadingsOf(facilities, usage_data, r.facility_name))
      ]_vars

\* a stored row was replaced by a reading with absent values
C2_Witness ==
    /\ call.op = "ingest" /\ call.stored = "other"
    /\ BagCardinality(usage_data) = 1
    /\ \E q \in BagToSet(usage_data) : IsNone(q.occupancy) /\ IsNone(q.capacity)

\* C3: under every interleaving of ingest calls the store holds at most one
\* reading per (facility, timestamp) and at most one facility row per name.
C3_UniqueKeys ==
    /\ \A q \in BagToSet(usage_data) :
          /\ CopiesIn(q, usage_data) = 1
          /\ \A p \in BagToSet(usage_data) : Conflicts(p, q) => p = q
    /\ \A f \in facilities : \A g \in facilities : f.name = g.name => f = g

\* two threads ingested the first reading of one facility at one instant:
\* both found no facility row, one created it, the other's INSERT was refused
C3_Witness ==
    /\ pc["collector"] = "returned" /\ pc["endpoint"] = "raised"
    /\ loc["collector"].reading = loc["endpoint"].reading
    /\ BagCardinality(usage_data) = 1

\* C4: facility creation and reading upsert of one ingest are one atomic
\* step: a reader that lists the facilities while ingests are in flight never
\* sees a facility that has no reading, and no reading is stored whose
\* facility row does not exist.
C4_AtomicIngest ==
    /\ call.op = "list" =>
          \A i \in DOMAIN ret : ReadingsOf(facilities, usage_data, ret[i]) # <<>>
    /\ \A q \in BagToSet(usage_data) : \E f \in facilities : f.id = q.facility_id

----------------------------------------------------------------------------
(* Claims about the ranked slot lists *)

\* the non-empty buckets of the facility and window of the last call, in
\* bucket order (day, then time)
SlotsOfCall ==
    TimeSlots(get_data_by_time_of_day(facilities, usage_data, call.name,
                                      call.days_back, now).result)

\* the means as the claims order them: a missing mean, and only a missing
\* mean, counts as +infinity in best_slots and as 0 in worst_slots
ClaimedBestKey(x) ==
    IF IsNone(x.avg_percentage) THEN Inf ELSE Fin(Val(x.avg_percentage))
ClaimedWorstKey(x) ==
    IF IsNone(x.avg_percentage) THEN Fin(<<0, 1>>) ELSE Fin(Val(x.avg_percentage))

\* slot i comes before slot j in the ascending ranking, ties in bucket order
BestBefore(slots, i, j) ==
    \/ KeyLess(ClaimedBestKey(slots[i]), ClaimedBestKey(slots[j]))
    \/ /\ ~KeyLess(ClaimedBestKey(slots[j]), ClaimedBestKey(slots[i]))
       /\ i < j

\* slot i comes before slot j in the descending ranking, ties in bucket order
WorstBefore(slots, i, j) ==
    \/ KeyLess(ClaimedWorstKey(slots[j]), ClaimedWorstKey(slots[i]))
    \/ /\ ~KeyLess(ClaimedWorstKey(slots[i]), ClaimedWorstKey(slots[j]))
       /\ i < j

\* the slots in ranking order: the slot that k - 1 others come before is the k-th
RankedBest(slots) ==
    [k \in DOMAIN slots |->
        slots[CHOOSE i \in DOMAIN slots :
                 Cardinality({j \in DOMAIN slots : BestBefore(slots, j, i)}) = k - 1]]
RankedWorst(slots) ==
    [k \in DOMAIN slots |->
        slots[CHOOSE i \in DOMAIN slots :
                 Cardinality({j \in DOMAIN slots : WorstBefore(slots, j, i)}) = k - 1]]

\* C9: best_slots returns the first top_n of the non-empty buckets sorted
\* ascending by avg_percentage, only a missing mean counting as +infinity,
\* ties in bucket order; with top_n = 1 that is the bucket of lowest mean,
\* also when the lowest mean is 0.
C9_BestSlots ==
    call.op = "best" => ret = Take(RankedBest(SlotsOfCall), call.top_n)

\* C10: worst_slots returns the first top_n of the non-empty buckets sorted
\* descending by avg_percentage, a missing mean counting as 0, buckets of
\* equal key in bucket order (day, then time).
C10_WorstSlots ==
    call.op = "worst" => ret = Take(RankedWorst(SlotsOfCall), call.top_n)

\* worst_slots returned, of three buckets, the fullest and then, of a bucket
\* without a mean and a later bucket of mean 0, the one without a mean
C10_Witness ==
    /\ call.op = "worst" /\ call.top_n = 2 /\ Len(ret) = 2
    /\ Len(SlotsOfCall) = 3
    /\ ret[1].avg_percentage = Some(<<50, 1>>)
    /\ IsNone(ret[2].avg_percentage)
    /\ \E i \in DOMAIN SlotsOfCall : SlotsOfCall[i].avg_percentage = Some(<<0, 1>>)

\* the stored readings of the facility of the last call that its window holds
InWindow ==
    {q \in BagToSet(usage_data) :
        /\ \E f \in facilities : f.name = call.name /\ f.id = q.facility_id
        /\ q.timestamp >= now - call.days_back * 86400}

\* the readings of the window that fall into the bucket of a day and a time
InBucket(day, time) ==
    {q \in InWindow : day_names[DayOfWeek(q.timestamp) + 1] = day
                      /\ TimeOfDay(q.timestamp) = time}

\* C11: every bucket of the bucket_stats output has sample_count >= 1, the
\* number of readings of the window that fall into it; a (day, time) pair with
\* no reading in the window is not in the output, nor is a day without bucket.
C11_NoEmptyBuckets ==
    call.op = "bucket_stats" =>
        /\ \A i \in DOMAIN ret :
              /\ ret[i].times # <<>>
              /\ \A j \in DOMAIN ret[i].times :
                    /\ ret[i].times[j].stats.sample_count >= 1
                    /\ ret[i].times[j].stats.sample_count
                          = Cardinality(InBucket(ret[i].day, ret[i].times[j].time))
        /\ \A q \in InWindow :
              \E i \in DOMAIN ret : \E j \in DOMAIN ret[i].times :
                  q \in InBucket(ret[i].day, ret[i].times[j].time)

\* bucket_stats over a window that holds the Monday readings and not the
\* Sunday ones the store has too
C11_Witness ==
    /\ call.op = "bucket_stats"
    /\ Len(ret) = 1
    /\ ret[1].day = "Monday"
    /\ Len(ret[1].times) = 1
    /\ \E q \in BagToSet(usage_data) : DayOfWeek(q.timestamp) = 0

\* C12: for a facility without a reading in the window, a name never ingested
\* included, daily_pattern and hourly_pattern return an empty mapping and
\* best_slots and worst_slots an empty list.
C12_EmptyFacility ==
    (call.op \in {"daily", "hourly", "best", "worst"} /\ InWindow = {}) => ret = <<>>

\* hourly_pattern of a facility whose readings are all older than the window
C12_Witness ==
    /\ call.op = "hourly"
    /\ BagCardinality(usage_data) >= 2
    /\ InWindow = {}
    /\ ret = <<>>


----------------------------------------------------------------------------
(* The sites the scraper is run against *)

\* the most lines, rows, widgets, elements or fragments of one document
MaxItems == 2
\* the most iframes of one page
MaxFrames == 2

SeqsUpTo(S, n) == UNION {[1..k -> S] : k \in 0..n}

\* lines of visible text: a name alone, a count alone, a line that matches
\* nothing, a name with a count, with a count over zero, with a percentage
BodyLines ==
    {<<Word("CoRec")>>, <<Frac(45, 200)>>, <<Word("Pool")>>,
     <<Word("TREC"), Frac(0, 12)>>, <<Word("CoRec"), Frac(5, 0)>>,
     <<Word("trec"), Pct(22, Some(5))>>}

CapacityText(a, b, pct) == <<Word("Capacity:"), Frac(a, b), Word("//"), pct>>

\* widgets: the shape of the site with a percentage that agrees with the
\* count, with one that does not, with dots for a number; another shape;
\* a missing name element; a missing capacity element; a name that none of
\* the name lists holds
WidgetElements ==
    {[name |-> Some("TREC"), capacity |-> Some(CapacityText(3, 12, Pct(25, Some(0))))],
     [name |-> Some("CoRec"), capacity |-> Some(CapacityText(0, 200, Pct(0, None)))],
     [name |-> Some("CoRec"), capacity |-> Some(CapacityText(3, 12, Pct(99, None)))],
     [name |-> Some("TREC"), capacity |-> Some(CapacityText(3, 12, DotPct))],
     [name |-> Some("TREC"), capacity |-> Some(<<Word("Open"), Frac(3, 12)>>)],
     [name |-> None, capacity |-> Some(CapacityText(3, 12, Pct(25, Some(0))))],
     [name |-> Some("TREC"), capacity |-> None],
     [name |-> Some("Pool"), capacity |-> Some(CapacityText(3, 12, Pct(25, Some(0))))]}

TableRows ==
    {[cells |-> 2, text |-> <<Word("CoRec"), Frac(45, 200)>>],
     [cells |-> 1, text |-> <<Word("CoRec"), Frac(45, 200)>>],
     [cells |-> 3, text |-> <<Word("trec"), Pct(22, Some(5))>>],
     [cells |-> 2, text |-> <<Word("Pool"), Frac(1, 2)>>],
     [cells |-> 2, text |-> <<Word("CoRec"), Frac(5, 0)>>]}

GenericElements ==
    {[sel |-> {"[class*='usage']"}, text |-> <<Word("TREC"), Frac(0, 12)>>],
     [sel |-> {"[class*='facility']", "[id*='usage']"}, text |-> <<Word("CoRec"), Frac(45, 200)>>],
     [sel |-> {"[id*='facility']"}, text |-> <<Word("Pool")>>],
     [sel |-> {"[class*='occupancy']"}, text |-> <<Word("CoRec"), Frac(5, 0)>>]}

\* {...} fragments of a script that hold "facility": whether json.loads takes
\* the fragment, and the object it gives
JsonFragments ==
    {[parses |-> TRUE,
      data |-> [facility |-> Some("CoRec"), occupancy |-> Some(45), capacity |-> Some(200)]],
     [parses |-> TRUE,
      data |-> [name |-> Some("TREC"), facility |-> Some("trec"), occupancy |-> Some(45),
                capacity |-> Some(200), percentage |-> Some(<<50, 1>>)]],
     [parses |-> TRUE,
      data |-> [facility |-> Some("CoRec"), occupancy |-> Some(0), current |-> Some(0),
                capacity |-> Some(200)]],
     [parses |-> TRUE,
      data |-> [facility |-> Some("TREC"), current |-> Some(3), max |-> Some(12),
                percent |-> Some(<<25, 1>>)]],
     [parses |-> TRUE,
      data |-> [facility |-> None, occupancy |-> Some(5), capacity |-> Some(10)]],
     [parses |-> TRUE, data |-> [name |-> Some(""), facility |-> Some("CoRec")]],
     [parses |-> TRUE, data |-> [name |-> Some(""), facility |-> Some("")]],
     [parses |-> TRUE, data |-> [kind |-> Some("facility"), occupancy |-> Some(5)]],
     [parses |-> FALSE, data |-> [facility |-> Some("CoRec")]]}

\* elements of the fetched page whose class matches
FetchedElements ==
    {[text |-> <<Frac(45, 200)>>, ancestors |-> << <<Word("CoRec"), Frac(45, 200)>> >>],
     [text |-> <<Pct(22, Some(5))>>,
      ancestors |-> << <<Pct(22, Some(5))>>, <<Word("Usage")>>, <<Word("trec")>> >>],
     [text |-> <<Frac(3, 12)>>,
      ancestors |-> << <<Frac(3, 12)>>, <<>>, <<>>, <<Word("TREC")>> >>],
     [text |-> <<Word("Open")>>, ancestors |-> << <<Word("CoRec")>> >>],
     [text |-> <<Frac(5, 0)>>, ancestors |-> << <<Word("CoRec")>> >>],
     [text |-> <<Pct(22, None), Frac(45, 200)>>, ancestors |-> << <<Word("CoRec")>> >>]}

NotFetched == [ok |-> FALSE, elements |-> <<>>]
Fetched(elements) == [ok |-> TRUE, elements |-> elements]

\* documents that hold one kind of content
TextDocs == {[EmptyDoc EXCEPT !.body = b] : b \in SeqsUpTo(BodyLines, MaxItems)}
WidgetDocs == {[EmptyDoc EXCEPT !.widgets = w] : w \in SeqsUpTo(WidgetElements, MaxItems)}
TableDocs == {[EmptyDoc EXCEPT !.tables = t] : t \in SeqsUpTo(TableRows, MaxItems)}
GenericDocs ==
    {[EmptyDoc EXCEPT !.generic = g] : g \in SeqsUpTo(GenericElements, MaxItems)}
        \cup {[EmptyDoc EXCEPT !.generic = g, !.widgets = <<w>>] :
                 g \in SeqsUpTo(GenericElements, 1), w \in WidgetElements}
ScriptDocs ==
    {[EmptyDoc EXCEPT !.scripts = <<f>>] : f \in SeqsUpTo(JsonFragments, MaxItems)}
        \cup {[EmptyDoc EXCEPT !.scripts = << <<f>>, <<>>, <<g>> >>] :
                 f \in JsonFragments, g \in JsonFragments}

\* documents in which more than one strategy finds something
MixedDocs ==
    {[EmptyDoc EXCEPT
         !.tables = <<[cells |-> 2, text |-> <<Word("CoRec"), Frac(45, 200)>>]>>,
         !.scripts = << <<[parses |-> TRUE,
                           data |-> [facility |-> Some("TREC"), current |-> Some(3),
                                     max |-> Some(12),
                                     percent |-> Some(<<25, 1>>)]]>> >>,
         !.body = << <<Word("trec"), Pct(22, Some(5))>> >>],
     [EmptyDoc EXCEPT
         !.tables = <<[cells |-> 3, text |-> <<Word("trec"), Pct(22, Some(5))>>]>>,
         !.widgets = <<[name |-> Some("CoRec"),
                        capacity |-> Some(CapacityText(0, 200, Pct(0, None)))]>>,
         !.scripts = << <<[parses |-> TRUE,
                           data |-> [facility |-> Some("CoRec"), occupancy |-> Some(45),
                                     capacity |-> Some(200)]]>> >>]}

\* the documents the pages of several frames are made of
FrameDocs ==
    {EmptyDoc,
     [EmptyDoc EXCEPT !.body = << <<Word("Pool")>> >>],
     [EmptyDoc EXCEPT !.body = << <<Word("CoRec"), Frac(45, 200)>> >>],
     [EmptyDoc EXCEPT !.body = << <<Word("TREC"), Frac(0, 12)>>, <<Word("CoRec"), Frac(5, 0)>> >>],
     [EmptyDoc EXCEPT !.widgets =
         << [name |-> Some("TREC"), capacity |-> Some(CapacityText(3, 12, Pct(25, Some(0))))] >>]}

Sites ==
    {[fetched |-> NotFetched, frames |-> <<>>, main |-> d] :
        d \in TextDocs \cup WidgetDocs \cup TableDocs \cup GenericDocs \cup ScriptDocs
                  \cup MixedDocs}
    \cup {[fetched |-> Fetched(e), frames |-> <<>>, main |-> EmptyDoc] :
             e \in SeqsUpTo(FetchedElements, MaxItems)}
    \cup {[fetched |-> f, frames |-> fr, main |-> d] :
             f \in {NotFetched, Fetched(<<>>)} \cup {Fetched(<<e>>) : e \in FetchedElements},
             fr \in SeqsUpTo(FrameDocs, MaxFrames),
             d \in FrameDocs}

Environments == [setup_ok : BOOLEAN, get_ok : BOOLEAN]

----------------------------------------------------------------------------
(* The scraper specification: a scraper object against one site *)

InitScraper ==
    /\ facilities = {}
    /\ usage_data = EmptyBag
    /\ now = Clock0
    /\ call = [op |-> "init"]
    /\ ret = Nothing
    /\ pc = NoThreads
    /\ loc = NoThreads
    /\ page \in Sites
    /\ driver = "none"
    /\ log = <<>>
    /\ collector_running = FALSE
    /\ threads = <<>>
    /\ opened = NotOpened(PlainConfig)
    /\ other_file = [facilities |-> {}, usage_data |-> EmptyBag]
    /\ leaked = {}

\* scraper.scrape()
Scrape ==
    \E env \in Environments : \E r \in {scrape(page, driver, env, now)} :
        /\ call' = [op |-> "scrape", env |-> env, was |-> driver]
        /\ ret' = r.ret
        /\ driver' = r.driver
        /\ log' = r.log
        /\ UNCHANGED <<facilities, usage_data, now, pc, loc, page, appVars>>

\* scraper.close()
Close ==
    /\ call' = [op |-> "close"]
    /\ ret' = Nothing
    /\ driver' = close(driver)
    /\ UNCHANGED <<facilities, usage_data, now, pc, loc, page, log, appVars>>

\* scraper._try_requests_first()
Light ==
    /\ call' = [op |-> "try_requests_first"]
    /\ ret' = LET r == TryRequestsFirst(page.fetched, now)
              IN IF IsNone(r) THEN Nothing ELSE Found(Val(r))
    /\ UNCHANGED <<facilities, usage_data, now, pc, loc, page, driver, log, appVars>>

\* scraper._find_in_tables() with the driver on the main document
Tables ==
    /\ driver = "open"
    /\ call' = [op |-> "find_in_tables"]
    /\ ret' = Found(FindInTables(page.main, now))
    /\ UNCHANGED <<facilities, usage_data, now, pc, loc, page, driver, log, appVars>>

\* scraper._find_in_divs() with the driver on the main document
Divs ==
    /\ driver = "open"
    /\ call' = [op |-> "find_in_divs"]
    /\ ret' = Found(FindInDivs(page.main, now))
    /\ UNCHANGED <<facilities, usage_data, now, pc, loc, page, driver, log, appVars>>

\* scraper._find_json_data() with the driver on the main document
Json ==
    /\ driver = "open"
    /\ call' = [op |-> "find_json_data"]
    /\ ret' = Found(FindJsonData(page.main.scripts, now))
    /\ UNCHANGED <<facilities, usage_data, now, pc, loc, page, driver, log, appVars>>

\* scraper._parse_all_text(text) on the visible text of the main document
FreeText ==
    /\ call' = [op |-> "parse_all_text"]
    /\ ret' = ParseAllText(page.main.body, now)
    /\ UNCHANGED <<facilities, usage_data, now, pc, loc, page, driver, log, appVars>>

NextScraper == Scrape \/ Close \/ Light \/ Tables \/ Divs \/ Json \/ FreeText

SpecScraper == InitScraper /\ [][NextScraper]_vars

----------------------------------------------------------------------------
(* Scraper claims *)

StrategyOps ==
    {"find_in_tables", "find_in_divs", "find_json_data", "parse_all_text",
     "try_requests_first"}

\* the rounding the site's one printed decimal allows: half of a tenth
Tolerance == <<1, 20>>

\* | p - occupancy / capacity * 100 | <= Tolerance
WithinTolerance(p, occupancy, capacity) ==
    LET diff == p[1] * capacity - occupancy * 100 * p[2]
        abs == IF diff < 0 THEN -diff ELSE diff
    IN capacity > 0 /\ abs * Tolerance[2] <= Tolerance[1] * capacity * p[2]

PercentageAgrees(f) ==
    (~IsNone(f.occupancy) /\ ~IsNone(f.capacity)) =>
        /\ ~IsNone(f.percentage)
        /\ WithinTolerance(Val(f.percentage), Val(f.occupancy), Val(f.capacity))

\* C5: every reading a strategy returns that has both occupancy and capacity
\* has a percentage, and it is occupancy / capacity * 100 up to rounding,
\* whatever percentage the text or the fragment carries, occupancy 0 included.
C5_PercentageFromCounts ==
    (call.op \in StrategyOps /\ ret.kind = "value") =>
        \A i \in DOMAIN ret.v : PercentageAgrees(ret.v[i])

\* a line that holds a known name and no number
NameAlone(line) ==
    /\ ~IsNone(FirstName(AllTextNames, line))
    /\ \A j \in DOMAIN line : line[j].k = "word"
\* a line that matches nothing: no known name and no number
MatchesNothing(line) ==
    /\ IsNone(FirstName(AllTextNames, line))
    /\ \A j \in DOMAIN line : line[j].k = "word"
\* a line of the shape occ/cap with cap > 0
CountAlone(line) == Len(line) = 1 /\ line[1].k = "frac" /\ line[1].cap > 0

\* a name line, then lines that match nothing, then a count line
NameThenCount(lines) ==
    /\ Len(lines) >= 2
    /\ NameAlone(lines[1])
    /\ CountAlone(lines[Len(lines)])
    /\ \A i \in 2..(Len(lines) - 1) : MatchesNothing(lines[i])

\* C6: the free-text strategy, given a line with a known name N and no number
\* followed, possibly after lines that match nothing, by a line occ/cap with
\* cap > 0, returns exactly the reading {N, occ, cap, occ/cap*100}.
C6_FreeTextFallback ==
    (call.op = "parse_all_text" /\ NameThenCount(page.main.body)) =>
        LET lines == page.main.body
            count == lines[Len(lines)][1]
        IN ret = Found(<<FacilityDict(Val(FirstName(AllTextNames, lines[1])),
                                      Some(count.occ), Some(count.cap),
                                      Some(Percentage(count.occ, count.cap)), now)>>)

\* a widget with a name and a capacity text of the shape
\* "Capacity: <occ>/<cap> // <pct>%"
WellShaped(w) ==
    /\ ~IsNone(w.name)
    /\ ~IsNone(w.capacity)
    /\ Len(Val(w.capacity)) = 4
    /\ Val(w.capacity)[2].k = "frac"
    /\ Val(w.capacity)[4].k = "pct"
    /\ Val(w.capacity) = CapacityText(Val(w.capacity)[2].occ, Val(w.capacity)[2].cap,
                                      Val(w.capacity)[4])

\* {name: N, occupancy: occ, capacity: cap, percentage: pct} of a well-shaped widget
ReadingOfWidget(w, clock) ==
    LET text == Val(w.capacity)
    IN FacilityDict(Val(w.name), Some(text[2].occ), Some(text[2].cap),
                    Some(PctValue(text[4])), clock)

ReadingsOfWidgets(widgets, clock) ==
    LET shaped == SelectSeq(widgets, WellShaped)
    IN [i \in DOMAIN shaped |-> ReadingOfWidget(shaped[i], clock)]

\* C7: the widget strategy returns one reading {N, occ, cap, pct} for each
\* widget with name N and capacity text "Capacity: <occ>/<cap> // <pct>%", in
\* the order of the widgets, and none for a widget that lacks the name or the
\* capacity element or whose capacity text has another shape; such a widget
\* does not keep the widgets after it from being read.
C7_WidgetReadings ==
    (/\ call.op = "find_in_divs"
     /\ (ReadingsOfWidgets(page.main.widgets, now) # <<>> \/ page.main.generic = <<>>)) =>
        ret = Found(ReadingsOfWidgets(page.main.widgets, now))

C7_Witness ==
    /\ call.op = "find_in_divs"
    /\ Len(page.main.widgets) = 2
    /\ IsNone(page.main.widgets[1].name)
    /\ page.main.widgets[2].capacity = Some(CapacityText(3, 12, Pct(25, Some(0))))
    /\ ret = Found(<<FacilityDict("TREC", Some(3), Some(12), Some(<<25, 1>>), now)>>)

\* the steps of the dynamic tier
TierBEntered == \E i \in DOMAIN log : log[i].e \in {"setup_driver", "get"}

\* the readings the static tier gets from the fetched page: none when the
\* fetch fails or when working through the page raises
TierAReadings ==
    LET r == LightElements(page.fetched.elements, <<>>, now)
    IN IF page.fetched.ok /\ r.kind = "value" THEN r.v ELSE <<>>

\* C8: scrape() enters the dynamic tier exactly when the static tier gave no
\* readings (the fetch failed, or it gave zero readings); when the static tier
\* gave readings, scrape() returns exactly those and acquires no driver.
C8_TierEscalation ==
    call.op = "scrape" =>
        /\ TierBEntered <=> (~page.fetched.ok \/ TierAReadings = <<>>)
        /\ TierAReadings # <<>> =>
              /\ ret = Found(TierAReadings)
              /\ driver = call.was
              /\ log = <<Ev("try_requests_first", 0)>>

C8_Witness ==
    /\ call.op = "scrape"
    /\ call.was = "none"
    /\ driver = "none"
    /\ ret.kind = "value"
    /\ Len(ret.v) = 2
    /\ ret.v[1].name = "CoRec"
    /\ ~TierBEntered

\* a renderer session was there, or could be set up, for the last scrape()
SessionAvailable == call.was = "open" \/ call.env.setup_ok

\* a document that none of the given strategies gets a reading from, the
\* free-text fallback returning nothing or raising
NothingIn(doc, with_json) ==
    /\ FindInTables(doc, now) = <<>>
    /\ FindInDivs(doc, now) = <<>>
    /\ with_json => FindJsonData(doc.scripts, now) = <<>>
    /\ ParseAllText(doc.body, now) \in {Found(<<>>), Raised("ZeroDivisionError")}

\* no tier has data: the static tier gives nothing, and the navigation fails
\* or no strategy finds anything in any frame or in the main document
NoDataFound ==
    /\ TierAReadings = <<>>
    /\ \/ ~call.env.get_ok
       \/ /\ \A i \in DOMAIN page.frames : NothingIn(page.frames[i], FALSE)
          /\ NothingIn(page.main, TRUE)

\* C13: with a renderer session available scrape() returns a list, never
\* None and never an exception; when the static tier yields nothing and every
\* strategy of the dynamic tier is empty or fails, the navigation failing
\* included, that list is empty.
C13_NoDataIsEmptyList ==
    (call.op = "scrape" /\ SessionAvailable) =>
        /\ ret.kind = "value"
        /\ NoDataFound => ret.v = <<>>

\* scrape() returned [] after the free-text fallback, the last strategy left,
\* raised on the main document
C13_Witness ==
    /\ call.op = "scrape"
    /\ call.env.get_ok
    /\ ParseAllText(page.main.body, now).kind = "raise"
    /\ Ev("parse_all_text", 0) \in Range(log)
    /\ ret = Found(<<>>)

\* C14: a scrape() call that went to acquire a renderer session has
\* terminated it when it returns or raises, whether it found readings, found
\* none, had a strategy raise or had the navigation raise.
C14_SessionScoped ==
    (call.op = "scrape" /\ Ev("setup_driver", 0) \in Range(log)) => driver = "none"

----------------------------------------------------------------------------
(* database.py under the threads of the application *)
(*                                                                         *)
(* Every call of FacilityDatabase opens connections of its own, and the    *)
(* other threads run between its statements.  A job is what a thread has   *)
(* yet to call: `todo` the calls, `stage` the statement the first of them  *)
(* stands before ("select" and "create" of get_or_create_facility, then    *)
(* "body", the statement of the call itself), `facility_id` the local of   *)
(* that name, `done` what the calls before returned or raised.  Before its *)
(* calls a thread of app.py goes through _ensure_db(), and `stage` is then *)
(* the statement of _ensure_db() it stands before.                         *)

\* get_all_facilities has no get_or_create_facility before its SELECT
FirstStage(todo) == IF todo # <<>> /\ Head(todo).op = "list" THEN "body" ELSE "select"

NoJob == [todo |-> <<>>, stage |-> "select", facility_id |-> None, done |-> <<>>]
JobOf(calls) == [NoJob EXCEPT !.todo = calls, !.stage = FirstStage(calls)]

\* db.insert_usage_data(**r)
InsertCall(r) == [op |-> "insert", on |-> "db", name |-> r.facility_name, reading |-> r]
\* db.get_facility_data(name, start_date=start_date)
DataCall(name, start_date) ==
    [op |-> "data", on |-> "db", name |-> name, start_date |-> start_date]
\* db.get_all_facilities()
ListCall == [op |-> "list", on |-> "db", name |-> ""]
\* analyzer.get_best_times, get_worst_times, get_daily_patterns, get_hourly_patterns
AnalyzerCall(op, name, days) ==
    [op |-> op, on |-> "analyzer", name |-> name, days |-> days, top_n |-> 5]

\* the statement of the call c after get_or_create_facility gave fid: the
\* usage_data table after it and what the call returns
CallBody(c, tables, fid, clock) ==
    CASE c.op = "insert" ->
            [usage_data |-> InsertOrReplace(tables.usage_data, UsageRow(Val(fid), c.reading)),
             result |-> None]
      [] c.op = "list" ->
            [usage_data |-> tables.usage_data,
             result |-> get_all_facilities(tables.facilities)]
      [] c.op = "data" ->
            [usage_data |-> tables.usage_data,
             result |-> get_facility_data(tables.facilities, tables.usage_data, c.name,
                                          c.start_date, None).result]
      [] c.op = "best" ->
            [usage_data |-> tables.usage_data,
             result |-> get_best_times(tables.facilities, tables.usage_data, c.name,
                                       c.days, c.top_n, clock).result]
      [] c.op = "worst" ->
            [usage_data |-> tables.usage_data,
             result |-> get_worst_times(tables.facilities, tables.usage_data, c.name,
                                        c.days, c.top_n, clock).result]
      [] c.op = "daily" ->
            [usage_data |-> tables.usage_data,
             result |-> get_daily_patterns(tables.facilities, tables.usage_data, c.name,
                                           c.days, clock).result]
      [] c.op = "hourly" ->
            [usage_data |-> tables.usage_data,
             result |-> get_hourly_patterns(tables.facilities, tables.usage_data, c.name,
                                            c.days, clock).result]

\* the first call of the job is over with the outcome given
CallOverWith(job, outcome) ==
    [todo |-> Tail(job.todo), stage |-> FirstStage(Tail(job.todo)), facility_id |-> None,
     done |-> Append(job.done, outcome)]

\* the next statement of the job on the tables of the file its call works
\* on, `locked` telling whether a connection left open holds the write lock
\* of that file: the SELECT of get_or_create_facility; its INSERT, which
\* raises OperationalError when the file stays locked, and IntegrityError,
\* get_or_create_facility's connection left open with the lock, when a row
\* of the name has come since the SELECT; or the statement of the call, the
\* INSERT OR REPLACE raising OperationalError when the file stays locked.
\* `leaks` tells whether the statement leaves a connection with the lock.
DbStep(job, tables, clock, locked) ==
    IF job.stage = "select"
    THEN [job |-> [job EXCEPT
                      !.facility_id = SelectFacilityId(tables.facilities, Head(job.todo).name),
                      !.stage = IF IsNone(SelectFacilityId(tables.facilities,
                                                           Head(job.todo).name))
                                THEN "create" ELSE "body"],
          tables |-> tables, leaks |-> FALSE]
    ELSE IF locked /\ (job.stage = "create" \/ Head(job.todo).op = "insert")
    THEN [job |-> CallOverWith(job, Raised("OperationalError")), tables |-> tables,
          leaks |-> FALSE]
    ELSE IF job.stage = "create"
    THEN IF FacilityNameTaken(tables.facilities, Head(job.todo).name)
         THEN [job |-> CallOverWith(job, Raised("IntegrityError")), tables |-> tables,
               leaks |-> TRUE]
         ELSE [job |-> [job EXCEPT !.facility_id = Some(NextFacilityId(tables.facilities)),
                                   !.stage = "body"],
               tables |-> [tables EXCEPT
                              !.facilities = InsertFacility(tables.facilities,
                                                            Head(job.todo).name)],
               leaks |-> FALSE]
    ELSE [job |-> CallOverWith(job, Found(CallBody(Head(job.todo), tables,
                                                   job.facility_id, clock).result)),
          tables |-> [tables EXCEPT
                         !.usage_data = CallBody(Head(job.todo), tables,
                                                 job.facility_id, clock).usage_data],
          leaks |-> FALSE]

\* the calls of the job that returned
Saved(done) == Len(SelectSeq(done, LAMBDA o : o.kind = "value"))

----------------------------------------------------------------------------
(* app.py: the background collector *)
(*                                                                         *)
(* The request handlers of the web application run in threads of their own *)
(* and call start_background_collector and stop_background_collector; each *)
(* statement that reads or writes the global collector_running is a step.  *)
(* A collector thread is [at, scraper, job]: where it stands in            *)
(* collect_data_background ("cycle", "open_db" and "open_analyzer" are the *)
(* statements of _ensure_db()), its local scraper: "none", "idle" (made,   *)
(* without a driver) or "open" (with a driver), and the inserts it has yet *)
(* to make.  `opened` holds the globals of _ensure_db().                   *)

\* the most collector threads started in one run of the application
MaxThreads == 2

\* the request handler threads
Handlers == {"request1", "request2"}

\* what the site serves while the collector runs: readings in the fetched
\* page, or nothing anywhere
CollectorSites ==
    {[fetched |-> Fetched(<<[text |-> <<Frac(45, 200)>>,
                            ancestors |-> << <<Word("CoRec"), Frac(45, 200)>> >>]>>),
      frames |-> <<>>, main |-> EmptyDoc],
     NoPage}

\* the arguments collect_data_background and test_collector give
\* insert_usage_data for a facility dict, metadata={'source': source}
CollectedReading(facility, source) ==
    [facility_name |-> facility.name, timestamp |-> facility.timestamp,
     occupancy |-> facility.occupancy, capacity |-> facility.capacity,
     percentage |-> facility.percentage, metadata |-> Some(source)]

\* for facility in facilities: db.insert_usage_data(...)
InsertCalls(found, source) ==
    [i \in DOMAIN found |-> InsertCall(CollectedReading(found[i], source))]

\* the driver of a collector's scraper, and the scraper a driver state leaves
DriverOf(scraper) == IF scraper = "open" THEN "open" ELSE "none"
ScraperWith(drv) == IF drv = "open" THEN "open" ELSE "idle"

InitCollector ==
    /\ facilities = {}
    /\ usage_data = EmptyBag
    /\ now = Clock0
    /\ call = [op |-> "init"]
    /\ ret = Nothing
    /\ pc = [h \in Handlers |-> "idle"]
    /\ loc = [h \in Handlers |-> NoJob]
    /\ page = NoPage
    /\ driver = "none"
    /\ log = <<>>
    /\ collector_running = FALSE
    /\ threads = <<>>
    /\ opened = NotOpened(PlainConfig)
    /\ other_file = [facilities |-> {}, usage_data |-> EmptyBag]
    /\ leaked = {}

\* the collector threads that are being started or may yet be
Starting == {h \in Handlers : pc[h] \in {"start_set", "start_thread"}}

\* a handler calls start_background_collector(): `if collector_running:`
StartTest(h) ==
    /\ pc[h] = "idle"
    /\ Len(threads) + Cardinality(Starting) < MaxThreads
    /\ IF collector_running
       THEN /\ call' = [op |-> "start"]
            /\ ret' = Found(FALSE)
            /\ pc' = pc
       ELSE /\ pc' = [pc EXCEPT ![h] = "start_set"]
            /\ UNCHANGED <<call, ret>>
    /\ UNCHANGED <<facilities, usage_data, now, loc, page, driver, log, appVars>>

\* collector_running = True
StartSet(h) ==
    /\ pc[h] = "start_set"
    /\ collector_running' = TRUE
    /\ pc' = [pc EXCEPT ![h] = "start_thread"]
    /\ UNCHANGED <<facilities, usage_data, now, call, ret, loc, page, driver, log, threads, dbVars>>

\* collector_thread = threading.Thread(...); collector_thread.start(); return True
StartThread(h) ==
    /\ pc[h] = "start_thread"
    /\ threads' = Append(threads, [at |-> "check", scraper |-> "none", job |-> NoJob])
    /\ pc' = [pc EXCEPT ![h] = "idle"]
    /\ call' = [op |-> "start"]
    /\ ret' = Found(TRUE)
    /\ UNCHANGED <<facilities, usage_data, now, loc, page, driver, log, collector_running, dbVars>>

\* the thread cannot be started: except: collector_running = False; return False
StartFails(h) ==
    /\ pc[h] = "start_thread"
    /\ collector_running' = FALSE
    /\ pc' = [pc EXCEPT ![h] = "idle"]
    /\ call' = [op |-> "start"]
    /\ ret' = Found(FALSE)
    /\ UNCHANGED <<facilities, usage_data, now, loc, page, driver, log, threads, dbVars>>

\* a handler calls stop_background_collector()
Stop(h) ==
    /\ pc[h] = "idle"
    /\ collector_running' = FALSE
    /\ call' = [op |-> "stop"]
    /\ ret' = Nothing
    /\ UNCHANGED <<facilities, usage_data, now, pc, loc, page, driver, log, threads, dbVars>>

\* a loop that does not read the flag: while True:
LoopForever(k) ==
    /\ k \in DOMAIN threads
    /\ threads[k].at = "check"
    /\ threads' = [threads EXCEPT ![k].at = "cycle"]
    /\ UNCHANGED <<facilities, usage_data, now, call, ret, pc, loc, page, driver, log,
                   collector_running, dbVars>>

\* while collector_running:
LoopTest(k) ==
    /\ k \in DOMAIN threads
    /\ threads[k].at = "check"
    /\ threads' = [threads EXCEPT ![k].at = IF collector_running THEN "cycle" ELSE "close"]
    /\ UNCHANGED <<facilities, usage_data, now, call, ret, pc, loc, page, driver, log,
                   collector_running, dbVars>>

\* the statement of _ensure_db() a collector thread stands before
EnsureAt == {"cycle", "open_db", "open_analyzer"}
StageAt(at) == IF at = "cycle" THEN "test" ELSE at

\* the try block of the loop as far as a statement of _ensure_db() that does
\* not return False: the scraper is made if there is none, and with
\* _ensure_db() true the thread goes to scrape
Ready(k) ==
    /\ k \in DOMAIN threads
    /\ threads[k].at \in EnsureAt
    /\ \E ok \in BOOLEAN :
         \E e \in {ensure_db(StageAt(threads[k].at), opened, ok)} :
            /\ e.stage # "false"
            /\ opened' = e.opened
            /\ threads' = [threads EXCEPT
                              ![k].at = IF e.stage = "true" THEN "scrape" ELSE e.stage,
                              ![k].scraper = IF threads[k].scraper = "none" THEN "idle"
                                             ELSE threads[k].scraper]
    /\ UNCHANGED <<facilities, usage_data, now, call, ret, pc, loc, page, driver, log,
                   collector_running, other_file, leaked>>

\* the try block of the loop as far as the statement of _ensure_db() that
\* returns False: the scraper is made if there is none, and the thread goes
\* to time.sleep(60)
Unready(k) ==
    /\ k \in DOMAIN threads
    /\ threads[k].at \in EnsureAt
    /\ \E ok \in BOOLEAN :
         \E e \in {ensure_db(StageAt(threads[k].at), opened, ok)} :
            /\ e.stage = "false"
            /\ opened' = e.opened
    /\ threads' = [threads EXCEPT
                      ![k].at = "sleep",
                      ![k].scraper = IF threads[k].scraper = "none" THEN "idle"
                                     ELSE threads[k].scraper]
    /\ UNCHANGED <<facilities, usage_data, now, call, ret, pc, loc, page, driver, log,
                   collector_running, other_file, leaked>>

\* where the thread goes with what scrape() gave: to the inserts when it
\* returned facilities, to the wait when it returned none, and to the wait
\* with its scraper closed and dropped when it raised
AfterScrape(thread, r) ==
    IF r.ret.kind = "raise"
    THEN [at |-> "wait", scraper |-> "none", job |-> NoJob]
    ELSE [at |-> IF r.ret.v = <<>> THEN "wait" ELSE "insert",
          scraper |-> ScraperWith(r.driver),
          job |-> JobOf(InsertCalls(r.ret.v, "web_scraper"))]

\* facilities = scraper.scrape()
CollectorScrape(k) ==
    /\ k \in DOMAIN threads
    /\ threads[k].at = "scrape"
    /\ \E site \in CollectorSites, env \in Environments :
         \E r \in {scrape(site, DriverOf(threads[k].scraper), env, now)} :
           threads' = [threads EXCEPT ![k] = AfterScrape(threads[k], r)]
    /\ UNCHANGED <<facilities, usage_data, now, call, ret, pc, loc, page, driver, log,
                   collector_running, dbVars>>

\* the next statement of db.insert_usage_data(...) in the loop over the
\* facilities; what it raises is caught and the loop goes on
CollectorInsert(k) ==
    /\ k \in DOMAIN threads
    /\ threads[k].at = "insert"
    /\ \E d \in {DbStep(threads[k].job,
                         [facilities |-> facilities, usage_data |-> usage_data], now,
                         "db" \in leaked)} :
          /\ facilities' = d.tables.facilities
          /\ usage_data' = d.tables.usage_data
          /\ leaked' = IF d.leaks THEN leaked \cup {"db"} ELSE leaked
          /\ threads' = [threads EXCEPT
                            ![k].at = IF d.job.todo = <<>> THEN "wait" ELSE "insert",
                            ![k].job = IF d.job.todo = <<>> THEN NoJob ELSE d.job]
    /\ UNCHANGED <<now, call, ret, pc, loc, page, driver, log, collector_running,
                   opened, other_file>>

\* the 60 seconds have passed: continue
SleepOver(k) ==
    /\ k \in DOMAIN threads
    /\ threads[k].at = "sleep"
    /\ threads' = [threads EXCEPT ![k].at = "check"]
    /\ UNCHANGED <<facilities, usage_data, now, call, ret, pc, loc, page, driver, log,
                   collector_running, dbVars>>

\* for _ in range(900): if not collector_running: break
WaitBreak(k) ==
    /\ k \in DOMAIN threads
    /\ threads[k].at = "wait"
    /\ ~collector_running
    /\ threads' = [threads EXCEPT ![k].at = "check"]
    /\ UNCHANGED <<facilities, usage_data, now, call, ret, pc, loc, page, driver, log,
                   collector_running, dbVars>>

\* the 900 seconds have passed
WaitOver(k) ==
    /\ k \in DOMAIN threads
    /\ threads[k].at = "wait"
    /\ threads' = [threads EXCEPT ![k].at = "check"]
    /\ UNCHANGED <<facilities, usage_data, now, call, ret, pc, loc, page, driver, log,
                   collector_running, dbVars>>

\* after the loop: if scraper: scraper.close(); the thread ends
Leave(k) ==
    /\ k \in DOMAIN threads
    /\ threads[k].at = "close"
    /\ threads' = [threads EXCEPT
                      ![k].at = "dead",
                      ![k].scraper = IF threads[k].scraper = "open" THEN "idle"
                                     ELSE threads[k].scraper]
    /\ UNCHANGED <<facilities, usage_data, now, call, ret, pc, loc, page, driver, log,
                   collector_running, dbVars>>

NextCollector ==
    \/ \E h \in Handlers : StartTest(h) \/ StartSet(h) \/ StartThread(h) \/ StartFails(h)
                              \/ Stop(h)
    \/ \E k \in 1..MaxThreads : LoopTest(k) \/ Ready(k) \/ Unready(k) \/ SleepOver(k)
                                    \/ CollectorScrape(k) \/ CollectorInsert(k)
                                    \/ WaitBreak(k) \/ WaitOver(k) \/ Leave(k)
    \/ Finalize

SpecCollector == InitCollector /\ [][NextCollector]_vars

\* a collector thread is a thread of the operating system: it is scheduled
\* again and again, time.sleep returns, and scrape() is taken to return
CollectorFairness ==
    \A k \in 1..MaxThreads :
        /\ WF_vars(LoopTest(k))
        /\ WF_vars(Ready(k))
        /\ WF_vars(CollectorScrape(k))
        /\ WF_vars(CollectorInsert(k))
        /\ WF_vars(Unready(k))
        /\ WF_vars(SleepOver(k))
        /\ WF_vars(WaitOver(k))
        /\ WF_vars(Leave(k))

SpecCollectorFair == InitCollector /\ [][NextCollector]_vars /\ CollectorFairness

\* the collector threads inside the loop of collect_data_background
InLoop ==
    {k \in DOMAIN threads :
        threads[k].at \in EnsureAt \cup {"scrape", "insert", "sleep", "wait"}}

\* C15: at most one collector thread is alive and executing collection
\* cycles, under every interleaving of start_background_collector and
\* stop_background_collector calls.
C15_SingleCollector == Cardinality(InLoop) <= 1

----------------------------------------------------------------------------
(* The query window *)

\* the rows of the facility asked for that lie in the window asked for
Asked ==
    {q \in BagToSet(usage_data) :
        /\ \E f \in facilities : f.name = call.name /\ f.id = q.facility_id
        /\ (call.start_date # None => Val(call.start_date) <= q.timestamp)
        /\ (call.end_date # None => q.timestamp <= Val(call.end_date))}

\* C16: get_facility_data returns exactly the stored readings of the facility
\* whose timestamp lies between the bounds given, both inclusive, in
\* ascending order of timestamp, and no reading of another facility.
C16_QueryWindow ==
    call.op = "query" =>
        /\ Len(ret) = Cardinality(Asked)
        /\ {ret[i] : i \in DOMAIN ret} = {ResultDict(q) : q \in Asked}
        /\ \A i, j \in DOMAIN ret : i < j => ret[i].timestamp < ret[j].timestamp

\* a query whose window starts and ends at stored readings and returns both,
\* while the store holds an earlier reading of the facility
C16_Witness ==
    /\ call.op = "query"
    /\ call.start_date = Some(Ts(0, 8, 0, 30))
    /\ call.end_date = Some(Ts(1, 8, 0, 0))
    /\ Len(ret) = 2
    /\ ret[1].timestamp = Ts(0, 8, 0, 30)
    /\ ret[2].timestamp = Ts(1, 8, 0, 0)
    /\ \E q \in BagToSet(usage_data) : q.timestamp = Ts(0, 8, 0, 0)

----------------------------------------------------------------------------
(* Failures inside the strategies *)

Strategies ==
    {"try_requests_first", "find_in_tables", "find_in_divs", "find_json_data",
     "parse_all_text"}

\* C17: every extraction strategy is total: whatever the document or text,
\* a count over a capacity of 0 included, it returns (a list of readings, or
\* nothing) and no exception leaves it; the free-text fallback in particular.
C17_StrategiesTotal == call.op \in Strategies => ret.kind # "raise"

\* what a strategy gets from one candidate taken alone
RowAlone(row) == FindInTables([EmptyDoc EXCEPT !.tables = <<row>>], now)
ElementAlone(elem) == LightElements(<<elem>>, <<>>, now)
FragmentAlone(fragment) == ConvertFragments(<<fragment>>, now)

\* C18: within one run of a strategy over its candidates (table rows, tagged
\* elements, JSON fragments), a candidate that fails to parse is skipped:
\* every well-formed candidate, those after the failing one included, has
\* its reading in the result.
C18_MalformedSkipped ==
    /\ call.op = "find_in_tables" =>
          \A i \in DOMAIN page.main.tables :
              RowAlone(page.main.tables[i]) # <<>> =>
                  RowAlone(page.main.tables[i])[1] \in Range(ret.v)
    /\ call.op = "find_json_data" =>
          \A k \in DOMAIN page.main.scripts : \A i \in DOMAIN page.main.scripts[k] :
              FragmentAlone(page.main.scripts[k][i]) # <<>> =>
                  FragmentAlone(page.main.scripts[k][i])[1] \in Range(ret.v)
    /\ (call.op = "try_requests_first" /\ page.fetched.ok) =>
          \A i \in DOMAIN page.fetched.elements :
              (/\ ElementAlone(page.fetched.elements[i]).kind = "value"
               /\ ElementAlone(page.fetched.elements[i]).v # <<>>) =>
                  /\ ret.kind = "value"
                  /\ ElementAlone(page.fetched.elements[i]).v[1] \in Range(ret.v)

----------------------------------------------------------------------------
(* Frames and strategies beside one that fails *)

\* what the pass over frame j extends the result with, the frame taken alone
FrameAlone(j) == FramesLoop(<<page.frames[j]>>, 1, now).facilities

\* the pass over frame j raises: the two strategies find nothing in it and
\* _parse_all_text raises on its text
FrameRaises(j) ==
    /\ FindInTables(page.frames[j], now) = <<>>
    /\ FindInDivs(page.frames[j], now) = <<>>
    /\ HasDataChars(page.frames[j].body)
    /\ ParseAllText(page.frames[j].body, now).kind = "raise"

\* the last scrape() rendered the page: it got a session and the navigation
\* went through
PageRendered ==
    /\ call.op = "scrape"
    /\ SessionAvailable
    /\ call.env.get_ok
    /\ Ev("get", 0) \in Range(log)

\* C19: in the dynamic tier an exception raised while frame i is processed
\* keeps neither the frames after it from being processed nor the readings of
\* the frames before it from the result; and on the main document every
\* strategy runs and contributes what it finds, whichever of them fails.
C19_SiblingIsolation ==
    PageRendered =>
        /\ \A j \in DOMAIN page.frames :
              /\ Ev("switch_to_frame", j) \in Range(log)
              /\ Ev("find_in_tables", j) \in Range(log)
              /\ Ev("default_content", j) \in Range(log)
              /\ \A r \in Range(FrameAlone(j)) : r \in Range(ret.v)
        /\ (\A j \in DOMAIN page.frames : FrameAlone(j) = <<>>) =>
              /\ \A e \in {"find_in_tables", "find_in_divs", "find_json_data"} :
                    Ev(e, 0) \in Range(log)
              /\ \A r \in Range(FindInTables(page.main, now)) \cup
                          Range(FindInDivs(page.main, now)) \cup
                          Range(FindJsonData(page.main.scripts, now)) :
                    r \in Range(ret.v)

\* the pass over the first of two frames raised, and scrape() returned the
\* reading of the second
C19_Witness ==
    /\ PageRendered
    /\ Len(page.frames) = 2
    /\ FrameRaises(1)
    /\ Ev("parse_all_text", 1) \in Range(log)
    /\ FrameAlone(2) # <<>>
    /\ ret = Found(FrameAlone(2))

----------------------------------------------------------------------------
(* Where facilities come from *)

\* the names with at least one stored reading
NamesWithReadings ==
    {f.name : f \in {g \in facilities :
                        \E q \in BagToSet(usage_data) : q.facility_id = g.id}}

\* C20: a facility exists only through the ingest of its first reading:
\* whatever calls came before, every name get_all_facilities returns has at
\* least one stored reading, the queries having left the facilities alone.
C20_FacilityOnlyByIngest ==
    call.op = "list" => \A i \in DOMAIN ret : ret[i] \in NamesWithReadings

----------------------------------------------------------------------------
(* The frame context *)

\* the step at k enters a frame, the step at m is the return from it to the
\* parent context, and every step between them is taken inside that frame
LeavesAt(k, m) ==
    /\ k < m
    /\ log[m] = Ev("default_content", log[k].i)
    /\ \A n \in DOMAIN log : (k < n /\ n < m) =>
          /\ log[n].i = log[k].i
          /\ log[n].e \in {"find_in_tables", "find_in_divs", "parse_all_text"}

\* C21: every frame the dynamic tier enters is left for the parent context,
\* whether its pass ends normally or raises, before the next frame is
\* entered and before the main-document phase starts; no main-document
\* strategy runs inside a frame context.
C21_FrameContext ==
    call.op = "scrape" =>
        /\ \A k \in DOMAIN log :
              log[k].e = "switch_to_frame" => \E m \in DOMAIN log : LeavesAt(k, m)
        /\ \A j \in DOMAIN page.frames :
              Ev("get", 0) \in Range(log) /\ call.env.get_ok =>
                  Ev("switch_to_frame", j) \in Range(log)

\* the pass over the first frame raised, a second frame was entered after it
\* and the main-document phase ran
C21_Witness ==
    /\ call.op = "scrape"
    /\ Len(page.frames) = 2
    /\ FrameRaises(1)
    /\ Ev("parse_all_text", 1) \in Range(log)
    /\ Ev("switch_to_frame", 2) \in Range(log)
    /\ Ev("find_in_tables", 0) \in Range(log)

----------------------------------------------------------------------------
(* The main-document phase *)

\* some frame yielded a reading
FramesYield == \E j \in DOMAIN page.frames : FrameAlone(j) # <<>>

\* the steps of the last scrape() taken on the main document, in order
MainSteps ==
    LET at == SelectSeq(log, LAMBDA ev : ev.i = 0 /\ ev.e \in Strategies)
    IN [k \in DOMAIN at |-> at[k].e]

\* what the three strategies find in the main document, one after the other
MainFound ==
    FindInTables(page.main, now) \o FindInDivs(page.main, now)
        \o FindJsonData(page.main.scripts, now)

\* C22: once the page is rendered the main-document strategies run exactly
\* when no frame yielded a reading; they run in the order tables, divs,
\* embedded data, each of them whatever the ones before found, and the
\* result is their results one after the other; the free-text fallback runs
\* exactly when that is empty.
C22_MainPhase ==
    PageRendered =>
        /\ FramesYield =>
              MainSteps = <<"try_requests_first">>
        /\ (~FramesYield /\ MainFound # <<>>) =>
              /\ MainSteps = <<"try_requests_first", "find_in_tables", "find_in_divs",
                               "find_json_data">>
              /\ ret = Found(MainFound)
        /\ (~FramesYield /\ MainFound = <<>>) =>
              /\ MainSteps = <<"try_requests_first", "find_in_tables", "find_in_divs",
                               "find_json_data", "parse_all_text">>
              /\ ret.kind = "value"
              /\ ParseAllText(page.main.body, now).kind = "value" =>
                    ret.v = ParseAllText(page.main.body, now).v

\* a main document in which the tables, the widgets and the embedded data
\* each hold a reading: all three are in the result, in that order
C22_Witness ==
    /\ PageRendered
    /\ ret.kind = "value"
    /\ Len(ret.v) = 3
    /\ <<ret.v[1]>> = FindInTables(page.main, now)
    /\ <<ret.v[2]>> = FindInDivs(page.main, now)
    /\ <<ret.v[3]>> = FindJsonData(page.main.scripts, now)

----------------------------------------------------------------------------
(* The snapshot of the page *)

\* C23: whenever a run of the dynamic tier ends with zero readings it
\* returns the empty list, not an exception, and the page source has been
\* saved before it returns: also when the navigation raised.
C23_SnapshotKept ==
    (call.op = "scrape" /\ SessionAvailable /\ Ev("get", 0) \in Range(log)) =>
        /\ ret.kind = "value"
        /\ ret.v = <<>> => log[Len(log)] = Ev("save_page_source", 0)

----------------------------------------------------------------------------
(* The numbers of a candidate *)

HasKind(tokens, kind) == \E j \in DOMAIN tokens : tokens[j].k = kind

\* the reading r made from the text of one candidate follows the rule: the
\* count and the capacity of the occ/cap shape when the text has one, with
\* the percentage derived from them; else the whole value of the percentage
FollowsRule(r, tokens) ==
    IF HasKind(tokens, "frac")
    THEN LET frac == Val(FirstOfKind(tokens, {"frac"}))
         IN /\ r.occupancy = Some(frac.occ)
            /\ r.capacity = Some(frac.cap)
            /\ r.percentage = Some(Percentage(frac.occ, frac.cap))
    ELSE /\ r.occupancy = None
         /\ r.percentage = Some(PctValue(Val(FirstOfKind(tokens, {"pct"}))))

\* C24: in the regex-based strategies a candidate whose text holds both an
\* occ/cap shape and a bare percentage, in either order, gives a reading
\* with the count and capacity of the occ/cap shape and the percentage
\* derived from them; a bare percentage NN.N% is read as that full value.
C24_NumericRule ==
    /\ (call.op = "try_requests_first" /\ ret.kind = "value") =>
          \A i \in DOMAIN page.fetched.elements :
              ElementAlone(page.fetched.elements[i]) \notin {Found(<<>>), Raised("ZeroDivisionError")} =>
                  /\ ElementAlone(page.fetched.elements[i]).v[1] \in Range(ret.v)
                  /\ FollowsRule(ElementAlone(page.fetched.elements[i]).v[1],
                                 page.fetched.elements[i].text)
    /\ call.op = "find_in_tables" =>
          \A k \in DOMAIN ret.v :
              \E i \in DOMAIN page.main.tables :
                  /\ <<ret.v[k]>> = RowAlone(page.main.tables[i])
                  /\ FollowsRule(ret.v[k], page.main.tables[i].text)

----------------------------------------------------------------------------
(* The names of the readings *)

\* the names the scraper looks for, in any of its three lists
KnownNames == Range(ExtractNames) \cup Range(AllTextNames) \cup Range(ParseNames)

\* C25: every reading a strategy emits carries a name of the fixed
\* vocabulary of known names, found in the text of its candidate or of its
\* ancestors: the readings of the widget strategy and of the embedded data
\* as much as those of the regex-based strategies.
C25_KnownNames ==
    (call.op \in Strategies \cup {"scrape"} /\ ret.kind = "value") =>
        \A k \in DOMAIN ret.v : ret.v[k].name \in KnownNames

----------------------------------------------------------------------------
(* The two clocks *)
(*                                                                         *)
(* The readings are stamped with datetime.now(), the local time of the     *)
(* host; the window of get_data_by_time_of_day is cut at SQLite's          *)
(* datetime('now', ...), which is UTC.  `now` is the local clock; the      *)
(* offset of the host's zone from UTC is an input of the call.             *)

\* UTC, US Eastern standard time, Central European time, in seconds
UtcOffsets == {0, -5 * 3600, 3600}

\* datetime('now') when the local clock shows `clock`
SqliteNow(clock, utc_offset) == clock - utc_offset

\* readings of one facility: before the window of two days, in its first
\* hours, well inside it
ZonedReadings ==
    {Reading("CoRec", t, v) : t \in {Ts(0, 8, 0, 0), Ts(0, 12, 0, 0), Ts(1, 8, 0, 0)},
                              v \in {NoValues, EmptyHall, HalfFull}}

\* db.get_data_by_time_of_day(name, days_back) on a host in the given zone
BucketStatsAt(name, days_back, utc_offset) ==
    \E d \in {get_data_by_time_of_day(facilities, usage_data, name, days_back,
                                      SqliteNow(now, utc_offset))} :
        /\ facilities' = d.facilities
        /\ call' = [op |-> "bucket_stats", name |-> name, days_back |-> days_back,
                    utc_offset |-> utc_offset]
        /\ ret' = d.result
        /\ UNCHANGED <<usage_data, now, pc, loc, page, driver, log, appVars>>

NextZoned ==
    \/ \E r \in ZonedReadings : Ingest(r)
    \/ \E n \in AnalyzerNames, d \in DaysBack, z \in UtcOffsets : BucketStatsAt(n, d, z)

SpecZoned == Init /\ [][NextZoned]_vars

\* the readings of a bucket of the window, oldest first
BucketRows(day, time) == SortByTimestamp(SetToBag(InBucket(day, time)))

\* C26: bucket_stats aggregates exactly the readings of the facility with
\* timestamp >= now - days_back days, now being read on the clock that
\* stamped the readings; each of them is counted in exactly one bucket, that
\* of its day and its HH:MM, sample_count is their number and the averages
\* are the means of the values present.
C26_WindowOnOneClock ==
    call.op = "bucket_stats" =>
        /\ \A q \in InWindow :
              \E i \in DOMAIN ret : \E j \in DOMAIN ret[i].times :
                  q \in InBucket(ret[i].day, ret[i].times[j].time)
        /\ \A i \in DOMAIN ret : \A j \in DOMAIN ret[i].times :
              LET rows == BucketRows(ret[i].day, ret[i].times[j].time)
              IN /\ ret[i].times[j].stats.sample_count = Len(rows)
                 /\ ret[i].times[j].stats.avg_percentage
                       = Avg([k \in DOMAIN rows |-> rows[k].percentage])

----------------------------------------------------------------------------
(* The rollups *)

\* the buckets of the window, as <<day of week, minute of the day>>
WindowKeys == {<<DayOfWeek(q.timestamp), TimeOfDay(q.timestamp)>> : q \in InWindow}

\* the mean percentage of a bucket over its readings that have one
BucketMean(key) ==
    LET rows == BucketRows(day_names[key[1] + 1], key[2])
    IN Avg([k \in DOMAIN rows |-> rows[k].percentage])

\* the means of the given buckets that are present, each bucket once
PresentMeans(keys) ==
    LET present == SortKeys({key \in keys : ~IsNone(BucketMean(key))})
    IN [k \in DOMAIN present |-> Val(BucketMean(present[k]))]

DayKeys(day) == {key \in WindowKeys : day_names[key[1] + 1] = day}
KeysOfHour(hour) == {key \in WindowKeys : key[2] \div 60 = hour}

\* the buckets of each day, and of each hour
KeysByDay == [day \in Range(day_names) |-> DayKeys(day)]
KeysByHour == [hour \in 0..23 |-> KeysOfHour(hour)]

\* the mapping has one item for each key whose buckets have a present mean,
\* and its value is the mean of those means
IsRollup(mapping, keyed) ==
    /\ \A i, j \in DOMAIN mapping : mapping[i].key = mapping[j].key => i = j
    /\ \A i \in DOMAIN mapping :
          /\ mapping[i].key \in DOMAIN keyed
          /\ PresentMeans(keyed[mapping[i].key]) # <<>>
          /\ mapping[i].value
                = RatDivInt(SumRat(PresentMeans(keyed[mapping[i].key])),
                            Len(PresentMeans(keyed[mapping[i].key])))
    /\ \A key \in DOMAIN keyed :
          PresentMeans(keyed[key]) # <<>> => \E i \in DOMAIN mapping : mapping[i].key = key

\* C27: daily_pattern maps each day with a bucket whose mean is present to
\* the mean of the avg_percentage of the day's buckets, each bucket once
\* whatever its sample_count; hourly_pattern does so for each hour, over the
\* buckets of all days whose time falls in that hour; buckets without a mean
\* are left out, and so are days and hours without one.
C27_UnweightedRollups ==
    /\ call.op = "daily" => IsRollup(ret, KeysByDay)
    /\ call.op = "hourly" => IsRollup(ret, KeysByHour)

\* daily_pattern over a day with a bucket of two readings, 0% and 50%, and a
\* bucket of one reading, 50%: 37.5, not the 33.3 of the three readings
C27_Witness ==
    /\ call.op = "daily"
    /\ Cardinality(InWindow) = 3
    /\ Cardinality(DayKeys("Sunday")) = 2
    /\ ret = <<[key |-> "Sunday", value |-> <<75, 2>>]>>

----------------------------------------------------------------------------
(* app.py: the serving process over its stores *)
(*                                                                         *)
(* The collector thread and a request handler thread, each between the     *)
(* statements of the other.  pc is where a thread stands ("idle", or the   *)
(* route it is in; for the collector "ensure", "scrape" and "insert"), loc  *)
(* its job; `call` is the request the handler was given and `ret` what it  *)
(* answered.  The process runs under any of the configurations, and the    *)
(* collector has been started.                                             *)

ServingHandlers == {"request1"}
ServingWorkers == {"collector"} \cup ServingHandlers

InitServing ==
    /\ facilities = {}
    /\ usage_data = EmptyBag
    /\ now = Clock0
    /\ call = [op |-> "none"]
    /\ ret = Nothing
    /\ pc = [w \in ServingWorkers |-> "idle"]
    /\ loc = [w \in ServingWorkers |-> NoJob]
    /\ page = NoPage
    /\ driver = "none"
    /\ log = <<>>
    /\ collector_running = TRUE
    /\ threads = <<>>
    /\ \E config \in Configs : opened = NotOpened(config)
    /\ other_file = [facilities |-> {}, usage_data |-> EmptyBag]
    /\ leaked = {}

\* the tables analyzer.db reads and writes
AnalyzerTables(o, facs, usage, other) ==
    IF OneFile(o) THEN [facilities |-> facs, usage_data |-> usage] ELSE other

\* the file the call works on: "db" the file of db, "other" the file of
\* analyzer.db when it is another
FileOf(c, o) == IF c.on = "db" \/ OneFile(o) THEN "db" ELSE "other"

\* the tables the call works on: those of db, or those of analyzer.db
TablesOf(c, o, facs, usage, other) ==
    IF c.on = "db" THEN [facilities |-> facs, usage_data |-> usage]
    ELSE AnalyzerTables(o, facs, usage, other)

\* the readings the collector of the serving process scrapes
ServingReadings ==
    {[Reading("CoRec", t, v) EXCEPT !.metadata = Some("web_scraper")] :
        t \in {Ts(0, 8, 0, 0), Ts(1, 8, 0, 0)}, v \in {HalfFull}}

\* the facilities the routes are asked about, and the days
ServingNames == {"CoRec", "TREC"}
ServingDays == {7}

\* the calls of a route: get_recommendations, get_current_data, get_history,
\* get_facilities, get_status as far as db.get_all_facilities(), and
\* test_collector, which has none before it has scraped
RouteCalls(route, name, days, clock) ==
    CASE route = "recommendations" ->
            <<AnalyzerCall("best", name, days), AnalyzerCall("worst", name, days),
              AnalyzerCall("daily", name, days), AnalyzerCall("hourly", name, days),
              DataCall(name, None)>>
      [] route = "current" -> <<DataCall(name, None)>>
      [] route = "history" -> <<DataCall(name, Some(clock - days * 86400))>>
      [] route \in {"facilities", "status"} -> <<ListCall>>
      [] route = "test" -> <<>>

\* get_status after db.get_all_facilities() returned names:
\* db.get_facility_data(facility) for each, then for facilities[0]
StatusCalls(names) ==
    [i \in DOMAIN names |-> DataCall(names[i], None)]
        \o (IF names # <<>> THEN <<DataCall(names[1], None)>> ELSE <<>>)

\* the job of the route after the step that took it from `before` to
\* `after`: get_status goes on with what get_all_facilities returned
RouteNext(route, before, after) ==
    IF route = "status" /\ before.done = <<>> /\ after.done # <<>>
          /\ after.done[1].kind = "value"
    THEN [after EXCEPT !.todo = StatusCalls(after.done[1].v),
                       !.stage = FirstStage(StatusCalls(after.done[1].v))]
    ELSE after

\* total_points += len(data) over done[2] .. done[i]
RECURSIVE TotalPoints(_, _)
TotalPoints(done, i) == IF i < 2 THEN 0 ELSE Len(done[i].v) + TotalPoints(done, i - 1)

\* latest_time of get_status: the timestamp of the last reading of
\* facilities[0], None without facilities or without readings
LatestTime(done) ==
    IF done[1].v # <<>> /\ done[Len(done)].v # <<>>
    THEN Some(done[Len(done)].v[Len(done[Len(done)].v)].timestamp)
    ELSE None

\* what the route answers with what its calls returned
RouteAnswer(route, done, running) ==
    CASE route = "recommendations" ->
            Found([total_data_points |-> Len(done[5].v),
                   best_times |-> done[1].v, worst_times |-> done[2].v,
                   daily_patterns |-> done[3].v, hourly_patterns |-> done[4].v])
      [] route = "current" ->
            IF done[1].v # <<>>
            THEN Found([data |-> done[1].v[Len(done[1].v)], total_points |-> Len(done[1].v)])
            ELSE Raised("No data found")
      [] route = "history" ->
            Found([data_points |-> Len(done[1].v), data |-> done[1].v])
      [] route = "facilities" -> Found([facilities |-> done[1].v])
      [] route = "status" ->
            Found([collector_running |-> running,
                   facilities_tracked |-> Len(done[1].v),
                   total_data_points |-> TotalPoints(done, Len(done[1].v) + 1),
                   latest_collection |-> LatestTime(done),
                   db_available |-> TRUE])

\* what the route answers when _ensure_db() returned False: 503, but
\* get_status answers 200 with db_available False
RouteRefusal(route, running) ==
    IF route = "status"
    THEN Found([collector_running |-> running, facilities_tracked |-> 0,
                total_data_points |-> 0, latest_collection |-> None,
                db_available |-> FALSE])
    ELSE IF route = "test" THEN Raised("Database not available")
    ELSE Raised("Database unavailable")

\* where a worker stands when its _ensure_db() has returned True
AfterEnsure(at) ==
    IF at = "ensure" THEN "scrape" ELSE IF at = "test" THEN "test_scrape" ELSE at

\* the collector begins a cycle: if not _ensure_db(): ...
Collect ==
    /\ pc["collector"] = "idle"
    /\ pc' = [pc EXCEPT !["collector"] = "ensure"]
    /\ loc' = [loc EXCEPT !["collector"] = [NoJob EXCEPT !.stage = "test"]]
    /\ UNCHANGED <<facilities, usage_data, now, call, ret, page, driver, log, appVars>>

\* a handler is given GET /api/facility/<name>/recommendations, /current or
\* /history with ?days=<days>, or GET /api/facilities, GET /api/status or POST
\* /api/collector/test, which have no name, and calls _ensure_db()
Route(h, route, name, days) ==
    /\ pc[h] = "idle"
    /\ pc' = [pc EXCEPT ![h] = route]
    /\ loc' = [loc EXCEPT ![h] = [JobOf(RouteCalls(route, name, days, now))
                                     EXCEPT !.stage = "test"]]
    /\ call' = [op |-> route, name |-> name, days |-> days]
    /\ ret' = Nothing
    /\ UNCHANGED <<facilities, usage_data, now, page, driver, log, appVars>>

\* a statement of the worker's _ensure_db() that does not return False; with
\* True the handler goes to its calls and the collector to scraper.scrape()
Ensure(w) ==
    /\ pc[w] # "idle"
    /\ loc[w].stage \in EnsureStages
    /\ \E ok \in BOOLEAN :
         \E e \in {ensure_db(loc[w].stage, opened, ok)} :
            /\ e.stage # "false"
            /\ opened' = e.opened
            /\ loc' = [loc EXCEPT ![w].stage = IF e.stage = "true"
                                               THEN FirstStage(loc[w].todo) ELSE e.stage]
            /\ pc' = [pc EXCEPT ![w] = IF e.stage = "true" THEN AfterEnsure(pc[w])
                                       ELSE pc[w]]
    /\ UNCHANGED <<facilities, usage_data, now, call, ret, page, driver, log,
                   collector_running, threads, other_file, leaked>>

\* the statement of the worker's _ensure_db() that returns False: the handler
\* answers, the collector sleeps 60 seconds and begins again
Unavailable(w) ==
    /\ pc[w] # "idle"
    /\ loc[w].stage \in EnsureStages
    /\ \E ok \in BOOLEAN :
         \E e \in {ensure_db(loc[w].stage, opened, ok)} :
            /\ e.stage = "false"
            /\ opened' = e.opened
    /\ ret' = IF w = "collector" THEN ret ELSE RouteRefusal(pc[w], collector_running)
    /\ pc' = [pc EXCEPT ![w] = "idle"]
    /\ loc' = [loc EXCEPT ![w] = NoJob]
    /\ UNCHANGED <<facilities, usage_data, now, call, page, driver, log,
                   collector_running, threads, other_file, leaked>>

\* facilities = scraper.scrape() gave the reading r, and the collector goes
\* to db.insert_usage_data(...)
Scraped(r) ==
    /\ pc["collector"] = "scrape"
    /\ BagCardinality(insert_usage_data(facilities, usage_data, r).usage_data) <= MaxRows
    /\ pc' = [pc EXCEPT !["collector"] = "insert"]
    /\ loc' = [loc EXCEPT !["collector"] = JobOf(<<InsertCall(r)>>)]
    /\ UNCHANGED <<facilities, usage_data, now, call, ret, page, driver, log, appVars>>

\* facilities = scraper.scrape() gave nothing or raised: the collector waits
\* and begins again
ScrapedNothing ==
    /\ pc["collector"] = "scrape"
    /\ pc' = [pc EXCEPT !["collector"] = "idle"]
    /\ loc' = [loc EXCEPT !["collector"] = NoJob]
    /\ UNCHANGED <<facilities, usage_data, now, call, ret, page, driver, log, appVars>>

\* the next statement of the collector's db.insert_usage_data(...); what it
\* raises is caught
CollectStep ==
    /\ pc["collector"] = "insert"
    /\ \E d \in {DbStep(loc["collector"],
                         [facilities |-> facilities, usage_data |-> usage_data], now,
                         "db" \in leaked)} :
          /\ facilities' = d.tables.facilities
          /\ usage_data' = d.tables.usage_data
          /\ leaked' = IF d.leaks THEN leaked \cup {"db"} ELSE leaked
          /\ pc' = [pc EXCEPT !["collector"] = IF d.job.todo = <<>> THEN "idle" ELSE "insert"]
          /\ loc' = [loc EXCEPT !["collector"] = IF d.job.todo = <<>> THEN NoJob ELSE d.job]
    /\ UNCHANGED <<now, call, ret, page, driver, log, collector_running, threads,
                   opened, other_file>>

\* test_collector() after _ensure_db():
\* scraper = FacilityUsageScraper(headless=True); facilities = scraper.scrape():
\* with facilities the handler goes to the inserts; with none it closes the
\* scraper and answers no_data; an exception is answered with status error
TestScrape(h) ==
    /\ pc[h] = "test_scrape"
    /\ \E site \in CollectorSites, env \in Environments :
         \E r \in {scrape(site, "none", env, now)} :
           IF r.ret.kind = "value" /\ r.ret.v # <<>>
           THEN /\ pc' = [pc EXCEPT ![h] = "test_insert"]
                /\ loc' = [loc EXCEPT ![h] = JobOf(InsertCalls(r.ret.v, "test_collection"))]
                /\ UNCHANGED <<call, ret>>
           ELSE /\ pc' = [pc EXCEPT ![h] = "idle"]
                /\ call' = call
                /\ ret' = IF r.ret.kind = "raise" THEN Raised("error")
                          ELSE [kind |-> "json", status |-> "no_data"]
                /\ loc' = [loc EXCEPT ![h] = NoJob]
    /\ UNCHANGED <<facilities, usage_data, now, page, driver, log, appVars>>

\* the next statement of db.insert_usage_data(...) in test_collector; what it
\* raises is caught; after the last the scraper is closed and the handler
\* answers with the counts
TestInsert(h) ==
    /\ pc[h] = "test_insert"
    /\ \E d \in {DbStep(loc[h], [facilities |-> facilities, usage_data |-> usage_data],
                         now, "db" \in leaked)} :
          /\ facilities' = d.tables.facilities
          /\ usage_data' = d.tables.usage_data
          /\ leaked' = IF d.leaks THEN leaked \cup {"db"} ELSE leaked
          /\ IF d.job.todo = <<>>
             THEN /\ pc' = [pc EXCEPT ![h] = "idle"]
                  /\ loc' = [loc EXCEPT ![h] = NoJob]
                  /\ call' = call
                  /\ ret' = [kind |-> "json", status |-> "success",
                             facilities_found |-> Len(d.job.done),
                             facilities_saved |-> Saved(d.job.done)]
             ELSE /\ loc' = [loc EXCEPT ![h] = d.job]
                  /\ UNCHANGED <<pc, call, ret>>
    /\ UNCHANGED <<now, page, driver, log, collector_running, threads, opened, other_file>>

\* the tables after a statement of the call c left the tables given
Written(c, o, tables) ==
    /\ IF FileOf(c, o) = "db"
       THEN /\ facilities' = tables.facilities
            /\ usage_data' = tables.usage_data
            /\ other_file' = other_file
       ELSE /\ other_file' = tables
            /\ UNCHANGED <<facilities, usage_data>>

\* the next statement of the handler's route after _db_required(): an
\* exception leaves the route (500), and after the last call the route
\* answers
RouteStep(h) ==
    /\ pc[h] \notin {"idle", "test_scrape", "test_insert"}
    /\ loc[h].stage \notin EnsureStages
    /\ \E d \in {DbStep(loc[h], TablesOf(Head(loc[h].todo), opened, facilities, usage_data,
                                         other_file), now,
                         FileOf(Head(loc[h].todo), opened) \in leaked)} :
        \E job \in {RouteNext(pc[h], loc[h], d.job)} :
          /\ Written(Head(loc[h].todo), opened, d.tables)
          /\ leaked' = IF d.leaks THEN leaked \cup {FileOf(Head(loc[h].todo), opened)}
                       ELSE leaked
          /\ IF job.done # <<>> /\ job.done[Len(job.done)].kind = "raise"
             THEN /\ ret' = Raised(job.done[Len(job.done)].e)
                  /\ pc' = [pc EXCEPT ![h] = "idle"]
                  /\ loc' = [loc EXCEPT ![h] = NoJob]
             ELSE IF job.todo = <<>>
             THEN /\ ret' = RouteAnswer(pc[h], job.done, collector_running)
                  /\ pc' = [pc EXCEPT ![h] = "idle"]
                  /\ loc' = [loc EXCEPT ![h] = NoJob]
             ELSE /\ loc' = [loc EXCEPT ![h] = job]
                  /\ UNCHANGED <<pc, ret>>
    /\ UNCHANGED <<now, call, page, driver, log, collector_running, threads, opened>>

NextServing ==
    \/ Collect
    \/ \E r \in ServingReadings : Scraped(r)
    \/ ScrapedNothing
    \/ CollectStep
    \/ \E h \in ServingHandlers, route \in {"recommendations", "current", "history"},
          n \in ServingNames, d \in ServingDays :
             Route(h, route, n, d)
    \/ \E h \in ServingHandlers, route \in {"facilities", "status", "test"},
          d \in ServingDays :
             Route(h, route, "", d)
    \/ \E w \in ServingWorkers : Ensure(w)
    \/ \E w \in ServingWorkers : Unavailable(w)
    \/ \E h \in ServingHandlers : RouteStep(h)
    \/ \E h \in ServingHandlers : TestScrape(h) \/ TestInsert(h)
    \/ Finalize

SpecServing == InitServing /\ [][NextServing]_vars

\* an analyzer call of the handler returns in this step
AnalyzerReturns(h) ==
    /\ pc[h] # "idle"
    /\ loc[h].stage = "body"
    /\ Head(loc[h].todo).on = "analyzer"
    /\ loc'[h] # loc[h]

\* what the analyzer call returning in this step would give on the tables db
\* ingests into
OnDbTables(h) ==
    CallBody(Head(loc[h].todo), [facilities |-> facilities, usage_data |-> usage_data],
             loc[h].facility_id, now).result

\* C28: whether PORT is set or not, the store the collector ingests into is
\* the store the analyzer reads: once _ensure_db has succeeded, best_slots,
\* worst_slots, daily_pattern and hourly_pattern of the process-wide analyzer
\* return what the readings ingested through the process-wide db, as they
\* stand when the call reads them, make them.
C28_OneStore ==
    [][\A h \in ServingHandlers :
          AnalyzerReturns(h) =>
              loc'[h].done[Len(loc'[h].done)] = Found(OnDbTables(h))]_vars

----------------------------------------------------------------------------
(* Claims about concurrent first ingests *)

\* the call of the thread is over, by return or by exception
CallOver(w) == pc[w] \in {"returned", "raised"}

\* the SELECT of the thread's call found no row of the name: the facility was
\* unknown when the call was made
FoundUnknown(w) == CallOver(w) /\ IsNone(loc[w].result)

\* the reading of the thread's call is a row of usage_data under a facility
\* of its name
StoredUnderName(w) ==
    \E f \in facilities :
        /\ f.name = Val(loc[w].reading).facility_name
        /\ \E row \in BagToSet(usage_data) :
              /\ row.facility_id = f.id
              /\ row.timestamp = Val(loc[w].reading).timestamp

\* C29: when two calls of insert_usage_data for one unknown facility name,
\* with different timestamps, have both found the name unknown, both return
\* without an exception, the facilities table has exactly one row of that
\* name, and both readings are stored under it.
C29_ConcurrentFirstIngests ==
    \A w \in Threads, u \in Threads :
        ( /\ w # u
          /\ FoundUnknown(w) /\ FoundUnknown(u)
          /\ Val(loc[w].reading).facility_name = Val(loc[u].reading).facility_name
          /\ Val(loc[w].reading).timestamp # Val(loc[u].reading).timestamp )
        => /\ pc[w] = "returned" /\ pc[u] = "returned"
           /\ Cardinality({f \in facilities :
                              f.name = Val(loc[w].reading).facility_name}) = 1
           /\ StoredUnderName(w) /\ StoredUnderName(u)

----------------------------------------------------------------------------
(* Claims about the shutdown of the collector *)

\* the thread has left collect_data_background with no session held
Terminated(k) == threads[k].at = "dead" /\ threads[k].scraper # "open"

AllTerminated == \A k \in DOMAIN threads : Terminated(k)

\* with the flag cleared, no thread that is not in a cycle begins one
NoNewCycle ==
    \A k \in DOMAIN threads :
        (~collector_running /\ threads[k].at # "cycle") => threads'[k].at # "cycle"

\* C30: once stop_background_collector has cleared the flag, unless a start
\* sets it again, every collector thread, the scrape in progress returning,
\* leaves its loop without beginning another cycle, closes the session of its
\* scraper if it holds one, and ends, from the wait between cycles as from
\* the wait taken when the database is unavailable.
C30_Shutdown ==
    /\ [][NoNewCycle]_vars
    /\ (~collector_running) ~> (AllTerminated \/ collector_running)

\* stop was called, no start followed, and a thread that went through the
\* wait of the unavailable database with a scraper made has ended beside one
\* that ended too
C30_Witness ==
    /\ call.op = "stop"
    /\ ~collector_running
    /\ ~IsNone(opened.error)
    /\ threads # <<>>
    /\ AllTerminated
    /\ \E k \in DOMAIN threads : threads[k].scraper = "idle"

====
